---------------------------- MODULE Spec2Model ----------------------------
(***************************************************************************)
(* Bean: notes -> Facts -> Narrative -> Verdict pipeline.                  *)
(*                                                                         *)
(* The model follows src/core/llm.py (error classification, the tenacity   *)
(* retry decorator), src/core/auditor.py, src/core/ghostwriter.py,         *)
(* src/core/critic.py (the three stage functions), src/ui/handlers.py (the *)
(* cached extraction) and src/app.py (the session script).                 *)
(*                                                                         *)
(* Conventions                                                             *)
(*   Optional[T]      <<>> is None, <<v>> is the value v                   *)
(*   float in [0,1]   an integer number of tenths (0.5 is 5, 1.0 is 10)    *)
(*   str(error)       a sequence of word tokens (substring search becomes  *)
(*                    a search for adjacent tokens)                        *)
(*   JSON text        a record: kind "none" (text is None), "empty" (""),  *)
(*                    "malformed" (not JSON) or "json" with a map from the *)
(*                    field names to JSON values                           *)
(***************************************************************************)
EXTENDS Integers, Sequences, FiniteSets, TLC

VARIABLES
    stage,              \* st.session_state["stage"]: "input", "verify", "report"
    facts,              \* st.session_state["facts"] (Optional)
    raw_text_context,   \* st.session_state["raw_text_context"]
    final_report,       \* st.session_state["final_report"] (Optional)
    critic_verdict,     \* st.session_state["critic_verdict"] (Optional)
    processing,         \* st.session_state["processing"]
    selected_template,  \* st.session_state["selected_template"] (Optional)
    api_key,            \* st.session_state["api_key"] (Optional)
    client_cache,       \* core.llm._client_cache: the credentials that have a cached client
    extract_cache,      \* st.cache_data store of _cached_extract_facts (Optional facts)
    run,                \* position of the pipeline run (the spec's stage state machine)
    failed,             \* the exception that ended the run, as the caller saw it
    narrative,          \* the narrative local of the verify script run (Optional)
    fn,                 \* the decorated stage function being executed, or "none"
    attempt_number,     \* tenacity's retry_state.attempt_number
    calls,              \* number of generate_content calls of this invocation
    waits,              \* the sleeps tenacity performed in this invocation
    history,            \* the remote outcomes of this invocation, in order
    result,             \* outcome of the invocation: pending, returned or raised
    keys_used,          \* the api_key each remote call of this invocation was made with
    env,                \* os.environ["GEMINI_API_KEY"] (Optional)
    handles,            \* core.llm._client_cache as a map: credential -> Optional client
    created,            \* number of genai.Client objects constructed so far
    thr,                \* per thread: position in get_gemini_client / reset_client and its locals
    made,               \* history: the clients constructed for each credential
    got,                \* history: the clients returned for a credential since its last eviction
    gotEver,            \* history: the clients ever returned for a credential
    released,           \* history: reset_client has been executed
    arg,                \* the arguments of a function called on its own
    out,                \* what that call returned or raised; Pending before the call
    files,              \* the files of TEMPLATES_DIR: path -> Optional text
    inc                 \* per thread: position in increment_use_count and its locals

vars == <<stage, facts, raw_text_context, final_report, critic_verdict,
          processing, selected_template, api_key, client_cache, extract_cache,
          run, failed, narrative, fn, attempt_number, calls, waits, history,
          result, keys_used, env, handles, created, thr, made, got, gotEver, released,
          arg, out, files, inc>>

sessionVars == <<stage, facts, raw_text_context, final_report, critic_verdict,
                 processing, selected_template, api_key>>

invocationVars == <<fn, attempt_number, calls, waits, history, result, keys_used>>

pipelineVars == <<sessionVars, client_cache, extract_cache, run, failed, narrative,
                  invocationVars>>

\* the client pool seen thread by thread, and the process environment
poolVars == <<env, handles, created, thr, made, got, gotEver, released>>

\* the functions that are called on their own, outside a session
unitVars == <<arg, out, files, inc>>

(***************************************************************************)
(* Optional values                                                         *)
(***************************************************************************)
None == <<>>

Some(v) == <<v>>

\* truth value of an Optional[str]
TruthyStr(opt) == opt # None /\ opt[1] # ""

(***************************************************************************)
(* Exceptions.  id is the number of the remote call that raised the        *)
(* exception (0 for an exception the stage itself constructs), so that two *)
(* exceptions of the same type raised by different calls are different.    *)
(***************************************************************************)
Exc(type, status_code, msg, retry_after, id) ==
    [type |-> type, status_code |-> status_code, msg |-> msg,
     retry_after |-> retry_after, id |-> id]

NoExc == Exc("none", 0, <<>>, 0, 0)

\* google.genai.errors.ClientError(code, response_json)
ClientError(status_code, msg, id) == Exc("ClientError", status_code, msg, 0, id)

\* an exception that carries no status code
PlainError(type, id) == Exc(type, 0, <<>>, 0, id)

RateLimitError(msg, retry_after) == Exc("RateLimitError", 0, msg, retry_after, 0)

AuthenticationError(msg) == Exc("AuthenticationError", 0, msg, 0, 0)

ValueError(msg) == Exc("ValueError", 0, msg, 0, 0)

\* str.lower() on the word tokens that occur in the modelled messages
Lower(w) ==
    CASE w = "API" -> "api"
      [] w = "INVALID" -> "invalid"
      [] w = "ARGUMENT" -> "argument"
      [] w = "UNAUTHENTICATED" -> "unauthenticated"
      [] w = "PERMISSION_DENIED" -> "permission_denied"
      [] w = "NOT_FOUND" -> "not_found"
      [] w = "RESOURCE_EXHAUSTED" -> "resource_exhausted"
      [] OTHER -> w

LowerMsg(msg) == [i \in 1..Len(msg) |-> Lower(msg[i])]

HasWord(msg, w) == \E i \in 1..Len(msg) : msg[i] = w

HasPair(msg, w1, w2) == \E i \in 1..(Len(msg) - 1) : msg[i] = w1 /\ msg[i + 1] = w2

is_rate_limit_error(error) ==
    \/ error.type = "ClientError" /\ error.status_code = 429
    \/ error.type = "ResourceExhausted"

is_auth_error(error) ==
    /\ error.type = "ClientError"
    /\ \/ error.status_code \in {401, 403}
       \/ LET error_str == LowerMsg(error.msg)
          IN  \/ HasPair(error_str, "api", "key")
              \/ HasWord(error_str, "invalid")
              \/ HasWord(error_str, "unauthorized")

RETRYABLE_EXCEPTIONS_WITH_EXHAUSTED ==
    {"ResourceExhausted", "ServiceUnavailable", "DeadlineExceeded", "ConnectionError",
     "TimeoutError"}

RETRYABLE_EXCEPTIONS ==
    {"ServiceUnavailable", "DeadlineExceeded", "ConnectionError", "TimeoutError"}

(***************************************************************************)
(* The tenacity policy built by create_retry_decorator                     *)
(***************************************************************************)
max_attempts == 3

min_wait == 2

max_wait == 10

Max2(a, b) == IF a >= b THEN a ELSE b

Min2(a, b) == IF a <= b THEN a ELSE b

\* a stop condition that is one attempt late
stop_after_attempt_late(n) == n > max_attempts

\* stop=stop_after_attempt(max_attempts)
stop_after_attempt(n) == n >= max_attempts

\* the mutant of wait_exponential: the exponential without floor and ceiling
wait_exponential_unclamped(n) == 2 ^ (n - 1)

\* wait=wait_exponential(multiplier=1, min=min_wait, max=max_wait)
wait_exponential(n) ==
    LET exp == 2 ^ (n - 1)
        res == 1 * exp
    IN  Max2(Max2(0, min_wait), Min2(res, max_wait))

\* a policy that retries whatever was raised
retry_if_exception_any(e) == e.type # "none"

\* retry=retry_if_exception_type(RETRYABLE_EXCEPTIONS)
retry_if_exception_type(e) == e.type \in RETRYABLE_EXCEPTIONS


(***************************************************************************)
(* JSON values and the pydantic models of src/models/schemas.py            *)
(***************************************************************************)
JVal(t, str, n, l) == [t |-> t, s |-> str, n |-> n, l |-> l]

JAbsent == JVal("absent", "", 0, <<>>)

JNull == JVal("null", "", 0, <<>>)

JStr(str) == JVal("str", str, 0, <<>>)

JInt(n) == JVal("int", "", n, <<>>)

\* a JSON number with one decimal, given in tenths
JNum(tenths) == JVal("num", "", tenths, <<>>)

JBool(b) == JVal("bool", "", IF b THEN 1 ELSE 0, <<>>)

JList(l) == JVal("list", "", 0, l)

\* Optional[str] = Field(None)
OptStrOk(v) == v.t \in {"absent", "null", "str"}

OptStr(v) == IF v.t = "str" THEN Some(v.s) ELSE None

\* Optional[int] = Field(None)
OptIntOk(v) == v.t \in {"absent", "null", "int"}

OptInt(v) == IF v.t = "int" THEN Some(v.n) ELSE None

\* List[str] = Field(default_factory=list)
StrListOk(v) == v.t \in {"absent", "list"}

StrList(v) == IF v.t = "list" THEN v.l ELSE <<>>

DefaultOrganizer == "IEEE RIT Student Branch"

\* EventFacts, reduced to one field of each kind that the pipeline treats
\* differently: Optional[str] (event_title, mode), Optional[int]
\* (attendance_count) and the defaulted str (organizer); of the fields the
\* Critic's source text leaves out, judges (List[str]) and media_link
\* (Optional[str]), here at their defaults
EventFacts(event_title, attendance_count, organizer, mode) ==
    [event_title |-> event_title, attendance_count |-> attendance_count,
     organizer |-> organizer, mode |-> mode, judges |-> <<>>, media_link |-> None]

FactsFields == {"event_title", "attendance_count", "organizer", "mode"}

EventFactsOk(o) ==
    /\ OptStrOk(o["event_title"])
    /\ OptIntOk(o["attendance_count"])
    /\ o["organizer"].t \in {"absent", "str"}
    /\ OptStrOk(o["mode"])

EventFactsFrom(o) ==
    EventFacts(OptStr(o["event_title"]),
               OptInt(o["attendance_count"]),
               IF o["organizer"].t = "str" THEN o["organizer"].s ELSE DefaultOrganizer,
               OptStr(o["mode"]))

\* the fields of EventFacts in the order of their declaration
FactsFieldOrder ==
    <<"event_title", "attendance_count", "organizer", "judges", "mode", "media_link">>

AllFactsFields == {FactsFieldOrder[i] : i \in 1..Len(FactsFieldOrder)}

\* the Python value of field k of f; None is JNull
FieldValue(f, k) ==
    CASE k = "attendance_count" ->
             IF f.attendance_count = None THEN JNull ELSE JInt(f.attendance_count[1])
      [] k = "organizer" -> JStr(f.organizer)
      [] k = "judges" -> JList(f.judges)
      [] OTHER -> IF f[k] = None THEN JNull ELSE JStr(f[k][1])

\* facts.model_dump()
model_dump(f) == [k \in AllFactsFields |-> FieldValue(f, k)]

\* EventFacts(**facts_dict)
EventFactsFromDict(dict) ==
    [EventFactsFrom(dict) EXCEPT !.judges = StrList(dict["judges"]),
                                 !.media_link = OptStr(dict["media_link"])]

EventNarrative(executive_summary, key_takeaways) ==
    [executive_summary |-> executive_summary, key_takeaways |-> key_takeaways]

NarrativeFields == {"executive_summary", "key_takeaways"}

EventNarrativeOk(o) ==
    /\ o["executive_summary"].t = "str"
    /\ StrListOk(o["key_takeaways"])

EventNarrativeFrom(o) ==
    EventNarrative(o["executive_summary"].s, StrList(o["key_takeaways"]))

CriticVerdict(is_safe, confidence, issues, reasoning) ==
    [is_safe |-> is_safe, confidence |-> confidence, issues |-> issues,
     reasoning |-> reasoning]

VerdictFields == {"is_safe", "confidence", "issues", "reasoning"}

ConfidenceOkUnbounded(v) == v.t = "num"

\* confidence: float = Field(..., ge=0.0, le=1.0)
ConfidenceOk(v) == v.t = "num" /\ v.n >= 0 /\ v.n <= 10

CriticVerdictOk(o) ==
    /\ o["is_safe"].t = "bool"
    /\ ConfidenceOk(o["confidence"])
    /\ StrListOk(o["issues"])
    /\ o["reasoning"].t = "str"

CriticVerdictFrom(o) ==
    CriticVerdict(o["is_safe"].n = 1, o["confidence"].n, StrList(o["issues"]),
                  o["reasoning"].s)

FullReportRepaired(f, n, confidence_score) ==
    [facts |-> f, narrative |-> [n EXCEPT !.key_takeaways = <<>>],
     confidence_score |-> confidence_score]

FullReport(f, n, confidence_score) ==
    [facts |-> f, narrative |-> n, confidence_score |-> confidence_score]

(***************************************************************************)
(* Responses of client.models.generate_content                             *)
(***************************************************************************)
Text(kind, obj) == [kind |-> kind, obj |-> obj]

\* bool(response.text)
TextTruthy(text) == text.kind \in {"malformed", "json"}

\* Model.model_validate_json(text): succeeds on well-formed JSON whose fields
\* pass the model's validators
ValidatesAs(schema, text) ==
    /\ text.kind = "json"
    /\ CASE schema = "EventFacts" -> EventFactsOk(text.obj)
         [] schema = "EventNarrative" -> EventNarrativeOk(text.obj)
         [] schema = "CriticVerdict" -> CriticVerdictOk(text.obj)

model_validate_json(schema, text) ==
    CASE schema = "EventFacts" -> EventFactsFrom(text.obj)
      [] schema = "EventNarrative" -> EventNarrativeFrom(text.obj)
      [] schema = "CriticVerdict" -> CriticVerdictFrom(text.obj)

\* a remote outcome: an exception, or a response with .parsed and .text
Raises(e) == [isExc |-> TRUE, exc |-> e, parsed |-> None, text |-> Text("none", <<>>)]

Response(parsed, text) == [isExc |-> FALSE, exc |-> NoExc, parsed |-> parsed, text |-> text]

\* outcome of one execution of a stage function body
Raise(e) == [kind |-> "raised", exc |-> e, value |-> None]

Return(v) == [kind |-> "returned", exc |-> NoExc, value |-> Some(v)]

Pending == [kind |-> "pending", exc |-> NoExc, value |-> None]

SchemaOf(f) ==
    CASE f = "extract_facts" -> "EventFacts"
      [] f = "generate_narrative" -> "EventNarrative"
      [] f = "check_consistency" -> "CriticVerdict"

RATE_LIMIT_MESSAGE == <<"API", "rate", "limit", "exceeded">>

AUTH_MESSAGE == <<"Invalid", "API", "key">>

PARSE_FAILED == <<"Failed", "to", "parse", "response">>

EMPTY_RESPONSE == <<"LLM", "returned", "empty", "response">>

\* except ClientError as e: of extract_facts
extract_facts_except(e) ==
    IF e.type = "ClientError"
    THEN IF is_rate_limit_error(e)
         THEN Raise(RateLimitError(RATE_LIMIT_MESSAGE, 60))
         ELSE IF is_auth_error(e)
              THEN Raise(AuthenticationError(AUTH_MESSAGE))
              ELSE Raise(e)
    ELSE Raise(e)

\* except ClientError as e: of generate_narrative
generate_narrative_except(e) ==
    IF e.type = "ClientError"
    THEN IF is_rate_limit_error(e)
         THEN Raise(RateLimitError(RATE_LIMIT_MESSAGE, 60))
         ELSE Raise(e)
    ELSE Raise(e)

\* except ClientError as e: of check_consistency
check_consistency_except(e) ==
    IF e.type = "ClientError"
    THEN IF is_rate_limit_error(e)
         THEN Raise(RateLimitError(RATE_LIMIT_MESSAGE, 60))
         ELSE Raise(e)
    ELSE Raise(e)

FALLBACK_CONFIDENCE == 5

FALLBACK_REASONING ==
    "Verification completed with reduced confidence due to parsing issues."

\* the safe default of check_consistency
FallbackVerdict == CriticVerdict(TRUE, FALLBACK_CONFIDENCE, <<>>, FALLBACK_REASONING)

\* extract_facts without the manual parse of response.text
extract_facts_no_fallback(r) ==
    IF r.isExc THEN extract_facts_except(r.exc)
    ELSE IF r.parsed # None THEN Return(r.parsed[1])
    ELSE Raise(ValueError(EMPTY_RESPONSE))

\* the body of extract_facts, given the outcome r of its remote call
extract_facts(r) ==
    IF r.isExc THEN extract_facts_except(r.exc)
    ELSE IF r.parsed # None THEN Return(r.parsed[1])
    ELSE IF TextTruthy(r.text)
         THEN IF ValidatesAs("EventFacts", r.text)
              THEN Return(model_validate_json("EventFacts", r.text))
              ELSE Raise(ValueError(PARSE_FAILED))
         ELSE Raise(ValueError(EMPTY_RESPONSE))

\* generate_narrative answering an empty response with an empty narrative
generate_narrative_from_nothing(r) ==
    IF r.isExc THEN generate_narrative_except(r.exc)
    ELSE IF r.parsed # None THEN Return(r.parsed[1])
    ELSE IF TextTruthy(r.text)
         THEN IF ValidatesAs("EventNarrative", r.text)
              THEN Return(model_validate_json("EventNarrative", r.text))
              ELSE Raise(ValueError(PARSE_FAILED))
         ELSE Return(EventNarrative("", <<>>))

\* the body of generate_narrative
generate_narrative(r) ==
    IF r.isExc THEN generate_narrative_except(r.exc)
    ELSE IF r.parsed # None THEN Return(r.parsed[1])
    ELSE IF TextTruthy(r.text)
         THEN IF ValidatesAs("EventNarrative", r.text)
              THEN Return(model_validate_json("EventNarrative", r.text))
              ELSE Raise(ValueError(PARSE_FAILED))
         ELSE Raise(ValueError(EMPTY_RESPONSE))

\* check_consistency failing on unparseable output as its two siblings do
check_consistency_strict(r) ==
    IF r.isExc THEN check_consistency_except(r.exc)
    ELSE IF r.parsed # None THEN Return(r.parsed[1])
    ELSE IF TextTruthy(r.text)
         THEN IF ValidatesAs("CriticVerdict", r.text)
              THEN Return(model_validate_json("CriticVerdict", r.text))
              ELSE Raise(ValueError(PARSE_FAILED))
         ELSE Raise(ValueError(EMPTY_RESPONSE))

\* the body of check_consistency
check_consistency(r) ==
    IF r.isExc THEN check_consistency_except(r.exc)
    ELSE IF r.parsed # None THEN Return(r.parsed[1])
    ELSE IF TextTruthy(r.text) /\ ValidatesAs("CriticVerdict", r.text)
         THEN Return(model_validate_json("CriticVerdict", r.text))
         ELSE Return(FallbackVerdict)

BodyAfterPool(f, r) ==
    IF client_cache = {}
    THEN Raise(ValueError(EMPTY_RESPONSE))
    ELSE CASE f = "extract_facts" -> extract_facts(r)
           [] f = "generate_narrative" -> generate_narrative(r)
           [] f = "check_consistency" -> check_consistency(r)

Body(f, r) ==
    CASE f = "extract_facts" -> extract_facts(r)
      [] f = "generate_narrative" -> generate_narrative(r)
      [] f = "check_consistency" -> check_consistency(r)

(***************************************************************************)
(* Inputs: what the remote service, the user and the reviewer may supply   *)
(***************************************************************************)
ApiKeys == {"k1"}

\* the keys a user may enter where the claim is about a change of key
SessionKeys == {"k1", "k2"}

RawTexts == {"", "Workshop on ML, 45 students"}

\* the errors generate_content may raise on its k-th call
RemoteErrors(k) ==
    {ClientError(429, <<"RESOURCE_EXHAUSTED">>, k),
     ClientError(401, <<"UNAUTHENTICATED">>, k),
     ClientError(403, <<"PERMISSION_DENIED">>, k),
     ClientError(400, <<"API", "key", "not", "valid">>, k),
     ClientError(404, <<"NOT_FOUND">>, k),
     PlainError("ResourceExhausted", k),
     PlainError("ServiceUnavailable", k),
     PlainError("DeadlineExceeded", k),
     PlainError("ConnectionError", k),
     PlainError("TimeoutError", k),
     PlainError("ServerError", k)}

NoObj(fields) == [f \in fields |-> JAbsent]

\* response.text is None, "" or not JSON at all
BadTexts(fields) ==
    {Text("none", NoObj(fields)), Text("empty", NoObj(fields)),
     Text("malformed", NoObj(fields))}

FactsDocs ==
    {[event_title |-> t, attendance_count |-> a, organizer |-> o, mode |-> JAbsent] :
        t \in {JNull, JStr("ML"), JInt(7)},
        a \in {JAbsent, JInt(45), JStr("many")},
        o \in {JAbsent, JNull}}

ParsedFacts ==
    {EventFacts(None, None, DefaultOrganizer, None),
     EventFacts(Some("ML"), Some(45), DefaultOrganizer, Some("Online"))}

NarrativeDocs ==
    {[executive_summary |-> e, key_takeaways |-> k] :
        e \in {JAbsent, JNull, JStr("Summary")},
        k \in {JAbsent, JStr("t1")}}

ParsedNarratives ==
    {EventNarrative("The workshop had 45 students.", <<"t1", "t2", "t3">>),
     EventNarrative("The workshop had 50 attendees.", <<>>)}

VerdictDocs ==
    {[is_safe |-> b, confidence |-> c, issues |-> i, reasoning |-> r] :
        b \in {JBool(TRUE), JBool(FALSE), JAbsent},
        c \in {JNum(9), JNum(3), JNum(11)},
        i \in {JAbsent, JList(<<"50 attendees">>)},
        r \in {JStr("checked")}}
    \cup {[is_safe |-> JBool(TRUE), confidence |-> JNum(10), issues |-> JAbsent,
           reasoning |-> JAbsent],
          [is_safe |-> JBool(TRUE), confidence |-> JAbsent, issues |-> JAbsent,
           reasoning |-> JStr("checked")],
          [is_safe |-> JBool(FALSE), confidence |-> JNum(-1), issues |-> JAbsent,
           reasoning |-> JStr("checked")]}

ParsedVerdicts ==
    {CriticVerdict(TRUE, 9, <<>>, "all facts supported"),
     CriticVerdict(FALSE, 8, <<"50 attendees">>, "attendance differs"),
     CriticVerdict(TRUE, 0, <<"50 attendees">>, "unsure")}

FieldsOf(schema) ==
    CASE schema = "EventFacts" -> FactsFields
      [] schema = "EventNarrative" -> NarrativeFields
      [] schema = "CriticVerdict" -> VerdictFields

DocsOf(schema) ==
    CASE schema = "EventFacts" -> FactsDocs
      [] schema = "EventNarrative" -> NarrativeDocs
      [] schema = "CriticVerdict" -> VerdictDocs

ParsedOf(schema) ==
    CASE schema = "EventFacts" -> ParsedFacts
      [] schema = "EventNarrative" -> ParsedNarratives
      [] schema = "CriticVerdict" -> ParsedVerdicts

\* every outcome of the k-th generate_content call of stage function f
RemoteOutcomes(f, k) ==
    LET schema == SchemaOf(f)
    IN  {Raises(e) : e \in RemoteErrors(k)}
        \cup {Response(Some(v), Text("none", NoObj(FieldsOf(schema)))) : v \in ParsedOf(schema)}
        \cup {Response(None, t) : t \in BadTexts(FieldsOf(schema))}
        \cup {Response(None, Text("json", d)) : d \in DocsOf(schema)}

\* get_builtin_templates(), reduced to the fields the merge reads
Template(id, default_organizer, default_mode) ==
    [id |-> id, default_organizer |-> default_organizer, default_mode |-> default_mode]

BuiltinTemplates == {Template("workshop", DefaultOrganizer, Some("Offline"))}

FormModes == <<"Offline", "Online", "Hybrid">>

\* what render_smart_form returns on submit: every widget yields a value, so
\* no field of the confirmed facts is None.  The reviewer types a title and
\* an attendance count and leaves the organizer and the mode at the values
\* the widgets show for f.
FormOutputs(f) ==
    {[EventFacts(Some(t), Some(a),
                 IF f.organizer # "" THEN f.organizer ELSE DefaultOrganizer,
                 IF \E i \in 1..3 : f.mode = Some(FormModes[i])
                 THEN f.mode ELSE Some(FormModes[1]))
         EXCEPT !.judges = f.judges,
                !.media_link = IF TruthyStr(f.media_link) THEN f.media_link ELSE Some("")] :
        t \in {"", "ML"}, a \in {0, 45}}

(***************************************************************************)
(* One invocation of a stage function under @llm_retry                     *)
(***************************************************************************)
NoFailure == [handler |-> "none", at |-> "none", exc |-> NoExc]

Failure(handler, at, e) == [handler |-> handler, at |-> at, exc |-> e]

\* the decorated function is entered: tenacity starts with attempt 1
Begin(f) ==
    /\ fn' = f
    /\ attempt_number' = 1
    /\ calls' = 0
    /\ waits' = <<>>
    /\ history' = <<>>
    /\ result' = Pending
    /\ keys_used' = <<>>

\* the invocation's outcome has been consumed by the caller
Finish ==
    /\ fn' = "none"
    /\ attempt_number' = 0
    /\ calls' = 0
    /\ waits' = <<>>
    /\ history' = <<>>
    /\ result' = Pending
    /\ keys_used' = <<>>

\* get_gemini_client(api_key): the client of a key is created once and cached
get_gemini_client(cache, key) == cache \cup {key}

\* a reset_client that evicts nothing
reset_client_keeps(cache, key) == cache

\* reset_client(api_key)
reset_client(cache, key) == IF TruthyStr(key) THEN cache \ {key[1]} ELSE {}

\* tenacity's decision after one execution b of the function body at attempt n:
\* hand the outcome to the caller, or sleep and try again
Retries(b, n) ==
    /\ b.kind = "raised"
    /\ retry_if_exception_type(b.exc)
    /\ ~stop_after_attempt(n)

\* one execution of the body of the stage function: get the client, call
\* generate_content once, interpret the outcome; then tenacity's decision
Attempt(r) ==
    /\ fn \in {"extract_facts", "generate_narrative", "check_consistency"}
    /\ result.kind = "pending"
    /\ api_key # None
    /\ r \in RemoteOutcomes(fn, calls + 1)
    /\ client_cache' = get_gemini_client(client_cache, api_key[1])
    /\ calls' = calls + 1
    /\ history' = Append(history, r)
    /\ keys_used' = Append(keys_used, api_key[1])
    /\ LET b == Body(fn, r)
       IN  IF Retries(b, attempt_number)
           THEN /\ waits' = Append(waits, wait_exponential(attempt_number))
                /\ attempt_number' = attempt_number + 1
                /\ result' = Pending
           ELSE /\ result' = b
                /\ UNCHANGED <<waits, attempt_number>>
    /\ UNCHANGED <<sessionVars, extract_cache, run, failed, narrative, fn>>
    /\ UNCHANGED poolVars
    /\ UNCHANGED unitVars

(***************************************************************************)
(* The session script of src/app.py                                        *)
(***************************************************************************)
\* the except clause of app.py that receives e, or "uncaught"
HandlerOf(e) ==
    IF e.type \in {"RateLimitError", "AuthenticationError", "ValueError"}
    THEN e.type
    ELSE "uncaught"

\* raw_text.strip() of the modelled texts
Strip(text) == text

\* a session that would also publish its key as os.environ["GEMINI_API_KEY"]
EnterApiKeyToEnviron(k) ==
    /\ api_key = None
    /\ fn = "none"
    /\ Strip(k) # ""
    /\ api_key' = Some(Strip(k))
    /\ UNCHANGED <<stage, facts, raw_text_context, final_report, critic_verdict,
                   processing, selected_template, client_cache, extract_cache,
                   run, failed, narrative, invocationVars>>
    /\ env' = Some(Strip(k))
    /\ UNCHANGED <<handles, created, thr, made, got, gotEver, released>>
    /\ UNCHANGED unitVars

\* "Get Started" on the API key gate
EnterApiKey(k) ==
    /\ api_key = None
    /\ fn = "none"
    /\ Strip(k) # ""
    /\ api_key' = Some(Strip(k))
    /\ UNCHANGED <<stage, facts, raw_text_context, final_report, critic_verdict,
                   processing, selected_template, client_cache, extract_cache,
                   run, failed, narrative, invocationVars>>
    /\ UNCHANGED poolVars
    /\ UNCHANGED unitVars

\* "Change API Key" in the sidebar
ChangeApiKey ==
    /\ api_key # None
    /\ fn = "none"
    /\ run # "Narrated"
    /\ api_key' = None
    /\ client_cache' = reset_client(client_cache, api_key)
    /\ UNCHANGED <<stage, facts, raw_text_context, final_report, critic_verdict,
                   processing, selected_template, extract_cache,
                   run, failed, narrative, invocationVars>>
    /\ UNCHANGED poolVars
    /\ UNCHANGED unitVars

\* the template selector of the input stage
SelectTemplate(t) ==
    /\ api_key # None
    /\ fn = "none"
    /\ stage = "input"
    /\ selected_template' = Some(t)
    /\ UNCHANGED <<stage, facts, raw_text_context, final_report, critic_verdict,
                   processing, api_key, client_cache, extract_cache,
                   run, failed, narrative, invocationVars>>
    /\ UNCHANGED poolVars
    /\ UNCHANGED unitVars

cache_lookup_miss(cache, text, key) == None

\* st.cache_data: the value stored for these arguments of _cached_extract_facts
cache_lookup(cache, text, key) == cache[text, key]

\* "Process Notes": the click, up to the call of _cached_extract_facts
ProcessNotes(raw_text) ==
    /\ api_key # None
    /\ fn = "none"
    /\ stage = "input"
    /\ ~processing
    /\ IF Strip(raw_text) = ""
       THEN UNCHANGED vars
       ELSE /\ processing' = TRUE
            /\ raw_text_context' = raw_text
            /\ run' = "Extracting"
            /\ failed' = NoFailure
            /\ IF cache_lookup(extract_cache, raw_text, api_key[1]) # None
               THEN \* st.cache_data hit: extract_facts is not called
                    /\ fn' = "handle_text_process"
                    /\ result' = Return(EventFactsFromDict(
                                            cache_lookup(extract_cache, raw_text, api_key[1])[1]))
                    /\ attempt_number' = 0
                    /\ calls' = 0
                    /\ waits' = <<>>
                    /\ history' = <<>>
                    /\ keys_used' = <<>>
               ELSE Begin("extract_facts")
            /\ UNCHANGED <<stage, facts, final_report, critic_verdict,
                           selected_template, api_key, client_cache,
                           extract_cache, narrative>>
    /\ UNCHANGED poolVars
    /\ UNCHANGED unitVars

\* the template defaults merged into the extracted facts
MergeTemplate(f, t) ==
    [f EXCEPT !.organizer = IF f.organizer = "" THEN t.default_organizer ELSE @,
              !.mode = IF ~TruthyStr(f.mode) THEN t.default_mode ELSE @]

\* a handler that resets the flag in its except clauses only
processing_after_caught(outcome) ==
    outcome.kind = "raised" /\ HandlerOf(outcome.exc) = "uncaught"

\* finally: st.session_state["processing"] = False
processing_after(outcome) == FALSE

\* the rest of the "Process Notes" handler, once extraction has an outcome
ExtractDone ==
    /\ fn \in {"extract_facts", "handle_text_process"}
    /\ result.kind # "pending"
    /\ processing' = processing_after(result)
    /\ IF result.kind = "returned"
       THEN LET \* _cached_extract_facts returns facts.model_dump(), which is
                \* what st.cache_data keeps; the handler rebuilds the facts
                facts_dict == model_dump(result.value[1])
                extracted_facts == IF fn = "extract_facts"
                                   THEN EventFactsFromDict(facts_dict)
                                   ELSE result.value[1]
            IN  /\ extract_cache' =
                       IF fn = "extract_facts"
                       THEN [extract_cache EXCEPT ![raw_text_context, api_key[1]] =
                                                       Some(facts_dict)]
                       ELSE extract_cache
                /\ facts' = IF selected_template # None
                            THEN Some(MergeTemplate(extracted_facts, selected_template[1]))
                            ELSE Some(extracted_facts)
                /\ stage' = "verify"
                /\ run' = "Extracted"
                /\ UNCHANGED failed
       ELSE /\ failed' = Failure(HandlerOf(result.exc), fn, result.exc)
            /\ run' = "Failed"
            /\ UNCHANGED <<extract_cache, facts, stage>>
    /\ Finish
    /\ UNCHANGED <<raw_text_context, final_report, critic_verdict,
                   selected_template, api_key, client_cache, narrative>>
    /\ UNCHANGED poolVars
    /\ UNCHANGED unitVars

\* the smart form is submitted: the confirmed facts are stored and the
\* Ghostwriter is called
SubmitFacts(updated_facts) ==
    /\ api_key # None
    /\ fn = "none"
    /\ stage = "verify"
    /\ run # "Narrated"
    /\ facts' = Some(updated_facts)
    /\ run' = "Narrating"
    /\ failed' = NoFailure
    /\ narrative' = None
    /\ Begin("generate_narrative")
    /\ UNCHANGED <<stage, raw_text_context, final_report, critic_verdict,
                   processing, selected_template, api_key, client_cache,
                   extract_cache>>
    /\ UNCHANGED poolVars
    /\ UNCHANGED unitVars

\* a session that moves on to the report page when Narration has failed
NarrativeDoneAdvancing ==
    /\ fn = "generate_narrative"
    /\ result.kind # "pending"
    /\ IF result.kind = "returned"
       THEN /\ narrative' = result.value
            /\ run' = "Narrated"
            /\ UNCHANGED <<failed, stage>>
       ELSE /\ failed' = Failure(HandlerOf(result.exc), fn, result.exc)
            /\ run' = "Failed"
            /\ stage' = "report"
            /\ UNCHANGED narrative
    /\ Finish
    /\ UNCHANGED <<facts, raw_text_context, final_report, critic_verdict,
                   processing, selected_template, api_key, client_cache, extract_cache>>
    /\ UNCHANGED poolVars
    /\ UNCHANGED unitVars

\* generate_narrative has an outcome
NarrativeDone ==
    /\ fn = "generate_narrative"
    /\ result.kind # "pending"
    /\ IF result.kind = "returned"
       THEN /\ narrative' = result.value
            /\ run' = "Narrated"
            /\ UNCHANGED failed
       ELSE /\ failed' = Failure(HandlerOf(result.exc), fn, result.exc)
            /\ run' = "Failed"
            /\ UNCHANGED narrative
    /\ Finish
    /\ UNCHANGED <<sessionVars, client_cache, extract_cache>>
    /\ UNCHANGED poolVars
    /\ UNCHANGED unitVars

\* a session that would call the Critic whether or not a narrative was returned
BeginVerifyUnguarded ==
    /\ run \in {"Narrated", "Failed"}
    /\ stage = "verify"
    /\ fn = "none"
    /\ run' = "Verifying"
    /\ Begin("check_consistency")
    /\ UNCHANGED <<sessionVars, client_cache, extract_cache, failed, narrative>>
    /\ UNCHANGED poolVars
    /\ UNCHANGED unitVars

\* the report is combined and the Critic is called
BeginVerify ==
    /\ run = "Narrated"
    /\ fn = "none"
    /\ run' = "Verifying"
    /\ Begin("check_consistency")
    /\ UNCHANGED <<sessionVars, client_cache, extract_cache, failed, narrative>>
    /\ UNCHANGED poolVars
    /\ UNCHANGED unitVars

\* confidence_score=1.0 of the report as first combined, in tenths
INITIAL_CONFIDENCE_SCORE == 10

WithConfidenceKept(report, verdict) == report

\* report.confidence_score = verdict.confidence
WithConfidence(report, verdict) == [report EXCEPT !.confidence_score = verdict.confidence]

\* check_consistency has an outcome
VerifyDone ==
    /\ fn = "check_consistency"
    /\ result.kind # "pending"
    /\ IF result.kind = "returned"
       THEN LET verdict == result.value[1]
            IN  /\ final_report' = Some(WithConfidence(
                                         FullReport(facts[1], narrative[1], INITIAL_CONFIDENCE_SCORE),
                                         verdict))
                /\ critic_verdict' = Some(verdict)
                /\ stage' = "report"
                /\ run' = "Verified"
                /\ UNCHANGED failed
       ELSE /\ failed' = Failure(HandlerOf(result.exc), fn, result.exc)
            /\ run' = "Failed"
            /\ UNCHANGED <<final_report, critic_verdict, stage>>
    /\ narrative' = None
    /\ Finish
    /\ UNCHANGED <<facts, raw_text_context, processing, selected_template,
                   api_key, client_cache, extract_cache>>
    /\ UNCHANGED poolVars
    /\ UNCHANGED unitVars

\* "Start Over" on the report page
\* a Start Over that forgets the report but stays on the report page
StartOverKeepsStage ==
    /\ api_key # None
    /\ fn = "none"
    /\ stage = "report"
    /\ facts' = None
    /\ final_report' = None
    /\ critic_verdict' = None
    /\ selected_template' = None
    /\ run' = "Idle"
    /\ failed' = NoFailure
    /\ UNCHANGED <<stage, raw_text_context, processing, api_key, client_cache,
                   extract_cache, narrative, invocationVars>>
    /\ UNCHANGED poolVars
    /\ UNCHANGED unitVars

StartOver ==
    /\ api_key # None
    /\ fn = "none"
    /\ stage = "report"
    /\ stage' = "input"
    /\ facts' = None
    /\ final_report' = None
    /\ critic_verdict' = None
    /\ selected_template' = None
    /\ run' = "Idle"
    /\ failed' = NoFailure
    /\ UNCHANGED <<raw_text_context, processing, api_key, client_cache,
                   extract_cache, narrative, invocationVars>>
    /\ UNCHANGED poolVars
    /\ UNCHANGED unitVars

AttemptStep ==
    /\ fn \in {"extract_facts", "generate_narrative", "check_consistency"}
    /\ \E r \in RemoteOutcomes(fn, calls + 1) : Attempt(r)

FormStep ==
    /\ stage = "verify"
    /\ facts # None
    /\ \E f \in FormOutputs(facts[1]) : SubmitFacts(f)

\* the state of one browser session when the script first runs
SessionInit ==
    /\ stage = "input"
    /\ facts = None
    /\ raw_text_context = ""
    /\ final_report = None
    /\ critic_verdict = None
    /\ processing = FALSE
    /\ selected_template = None
    /\ api_key = None
    /\ client_cache = {}
    /\ extract_cache = [t \in RawTexts, k \in SessionKeys |-> None]
    /\ run = "Idle"
    /\ failed = NoFailure
    /\ narrative = None
    /\ fn = "none"
    /\ attempt_number = 0
    /\ calls = 0
    /\ waits = <<>>
    /\ history = <<>>
    /\ result = Pending
    /\ keys_used = <<>>

\* the paths _get_template_path can give inside TEMPLATES_DIR, without the
\* .json suffix every one of them has
Paths == {<<"a">>, <<"b">>, <<"corrupt">>}

\* TEMPLATES_DIR with no file in it
NoFiles == [path \in Paths |-> None]

(***************************************************************************)
(* The client pool of core.llm, thread by thread.  Streamlit runs every    *)
(* session's script in a thread of one process, so _client_cache and       *)
(* os.environ are shared by the sessions.  A thread switch can happen      *)
(* between any two statements of get_gemini_client; one dict operation     *)
(* (in, [], []=, pop, clear) is atomic.                                    *)
(***************************************************************************)
Threads == {"s1", "s2"}

\* a thread outside increment_use_count: no template read, and the number
\* of its calls that returned True and False so far
NotIncrementing(returned, refused) ==
    [pc |-> "idle", template |-> None, returned |-> returned, refused |-> refused]

IncIdle == [t \in Threads |-> NotIncrementing(0, 0)]

\* no function is being called on its own
UnitIdle ==
    /\ arg = None
    /\ out = Pending
    /\ files = NoFiles
    /\ inc = IncIdle

\* the values passed as api_key: None, "" and two credentials
Credentials == {None, Some(""), Some("k1"), Some("k2")}

\* the values of GEMINI_API_KEY in the environment: unset, or a developer's key
EnvValues == {None, Some("k0")}

\* everything that could be used as a key of _client_cache
PoolKeys == Credentials \cup EnvValues

MaxClients == 3

NO_API_KEY == <<"No", "API", "key", "provided">>

KeyError(key) == Exc("KeyError", 0, key, 0, 0)

\* key = api_key or os.getenv("GEMINI_API_KEY")
ResolveKey(a, e) == IF TruthyStr(a) THEN a ELSE e

MissingKeyNever(key) == FALSE

\* if not key:
MissingKey(key) == ~TruthyStr(key)

CacheHitNever(cache, key) == FALSE

\* if key in _client_cache:
CacheHit(cache, key) == cache[key] # None

\* _client_cache[key] = client
CacheStore(cache, key, client) == [cache EXCEPT ![key] = Some(client)]

pop_or_clear_keeps(cache, a) == cache

\* the body of reset_client on the mapping: pop(api_key, None) or clear()
pop_or_clear(cache, a) ==
    IF TruthyStr(a)
    THEN [cache EXCEPT ![a] = None]
    ELSE [k \in DOMAIN cache |-> None]

Idle == [pc |-> "idle", api_key |-> None, key |-> None, client |-> 0, ret |-> Pending]

\* the client handed to the caller is remembered for the credential it was asked for
Handed(t, k, c) ==
    /\ got' = [got EXCEPT ![k] = @ \cup {c}]
    /\ gotEver' = [gotEver EXCEPT ![k] = @ \cup {c}]

\* get_gemini_client(a) is called: the key is resolved, or ValueError is raised
GetClientEnter(t, a) ==
    /\ thr[t].pc = "idle"
    /\ LET key == ResolveKey(a, env)
       IN  IF MissingKey(key)
           THEN thr' = [thr EXCEPT ![t] = [Idle EXCEPT !.api_key = a,
                                                       !.ret = Raise(ValueError(NO_API_KEY))]]
           ELSE thr' = [thr EXCEPT ![t] = [Idle EXCEPT !.pc = "lookup", !.api_key = a,
                                                       !.key = key]]
    /\ UNCHANGED <<env, handles, created, made, got, gotEver, released>>
    /\ UNCHANGED pipelineVars
    /\ UNCHANGED unitVars

\* if key in _client_cache:
Lookup(t) ==
    /\ thr[t].pc = "lookup"
    /\ thr' = [thr EXCEPT ![t].pc = IF CacheHit(handles, thr[t].key) THEN "fetch" ELSE "create"]
    /\ UNCHANGED <<env, handles, created, made, got, gotEver, released>>
    /\ UNCHANGED pipelineVars
    /\ UNCHANGED unitVars

\* return _client_cache[key]
Fetch(t) ==
    /\ thr[t].pc = "fetch"
    /\ LET k == thr[t].key
       IN  IF handles[k] # None
           THEN /\ thr' = [thr EXCEPT ![t].pc = "idle", ![t].client = handles[k][1],
                                      ![t].ret = Return(handles[k][1])]
                /\ Handed(t, k, handles[k][1])
           ELSE /\ thr' = [thr EXCEPT ![t].pc = "idle", ![t].ret = Raise(KeyError(k))]
                /\ UNCHANGED <<got, gotEver>>
    /\ UNCHANGED <<env, handles, created, made, released>>
    /\ UNCHANGED pipelineVars
    /\ UNCHANGED unitVars

\* client = genai.Client(api_key=key)
Create(t) ==
    /\ thr[t].pc = "create"
    /\ created < MaxClients
    /\ created' = created + 1
    /\ made' = [made EXCEPT ![thr[t].key] = @ \cup {created + 1}]
    /\ thr' = [thr EXCEPT ![t].pc = "store", ![t].client = created + 1]
    /\ UNCHANGED <<env, handles, got, gotEver, released>>
    /\ UNCHANGED pipelineVars
    /\ UNCHANGED unitVars

\* _client_cache[key] = client; return client
Store(t) ==
    /\ thr[t].pc = "store"
    /\ handles' = CacheStore(handles, thr[t].key, thr[t].client)
    /\ thr' = [thr EXCEPT ![t].pc = "idle", ![t].ret = Return(thr[t].client)]
    /\ Handed(t, thr[t].key, thr[t].client)
    /\ UNCHANGED <<env, created, made, released>>
    /\ UNCHANGED pipelineVars
    /\ UNCHANGED unitVars

\* reset_client(a) is called
ResetEnter(t, a) ==
    /\ thr[t].pc = "idle"
    /\ thr' = [thr EXCEPT ![t] = [Idle EXCEPT !.pc = "reset", !.api_key = a]]
    /\ UNCHANGED <<env, handles, created, made, got, gotEver, released>>
    /\ UNCHANGED pipelineVars
    /\ UNCHANGED unitVars

\* if api_key: _client_cache.pop(api_key, None) else: _client_cache.clear()
ResetClient(t) ==
    /\ thr[t].pc = "reset"
    /\ handles' = pop_or_clear(handles, thr[t].api_key)
    /\ got' = [k \in PoolKeys |-> IF handles'[k] = None THEN {} ELSE got[k]]
    /\ released' = TRUE
    /\ thr' = [thr EXCEPT ![t].pc = "idle"]
    /\ UNCHANGED <<env, created, made, gotEver>>
    /\ UNCHANGED pipelineVars
    /\ UNCHANGED unitVars

\* no thread is inside get_gemini_client or reset_client, nothing is cached
PoolIdle ==
    /\ handles = [k \in PoolKeys |-> None]
    /\ created = 0
    /\ thr = [t \in Threads |-> Idle]
    /\ made = [k \in PoolKeys |-> {}]
    /\ got = [k \in PoolKeys |-> {}]
    /\ gotEver = [k \in PoolKeys |-> {}]
    /\ released = FALSE

Init ==
    /\ SessionInit
    /\ env = None
    /\ PoolIdle
    /\ UnitIdle

PoolInit ==
    /\ SessionInit
    /\ env \in EnvValues
    /\ PoolIdle
    /\ UnitIdle

\* every other thread is outside the pool's functions
Alone(t) == \A u \in Threads \ {t} : thr[u].pc = "idle"

Next ==
    \/ \E k \in ApiKeys : EnterApiKey(k)
    \/ ChangeApiKey
    \/ \E t \in BuiltinTemplates : SelectTemplate(t)
    \/ \E raw_text \in RawTexts : ProcessNotes(raw_text)
    \/ AttemptStep
    \/ ExtractDone
    \/ FormStep
    \/ NarrativeDone
    \/ BeginVerify
    \/ VerifyDone
    \/ StartOver

Spec == Init /\ [][Next]_vars

\* the outcomes kept where the session has two keys to choose from: a parsed
\* object, a 401 and an outage
CredOutcome(r) ==
    IF r.isExc
    THEN r.exc.status_code = 401 \/ r.exc.type = "ServiceUnavailable"
    ELSE r.parsed # None

\* the session with two keys
CredNext ==
    \/ \E k \in SessionKeys : EnterApiKey(k)
    \/ ChangeApiKey
    \/ \E t \in BuiltinTemplates : SelectTemplate(t)
    \/ \E raw_text \in RawTexts : ProcessNotes(raw_text)
    \/ AttemptStep /\ CredOutcome(history'[Len(history')])
    \/ ExtractDone
    \/ FormStep
    \/ NarrativeDone
    \/ BeginVerify
    \/ VerifyDone
    \/ StartOver

CredSpec == Init /\ [][CredNext]_vars

\* the sessions' threads interleave statement by statement
PoolNext ==
    \/ \E t \in Threads, a \in Credentials : GetClientEnter(t, a)
    \/ \E t \in Threads : Lookup(t)
    \/ \E t \in Threads : Fetch(t)
    \/ \E t \in Threads : Create(t)
    \/ \E t \in Threads : Store(t)
    \/ \E t \in Threads, a \in Credentials : ResetEnter(t, a)
    \/ \E t \in Threads : ResetClient(t)

PoolSpec == PoolInit /\ [][PoolNext]_vars

\* one call of get_gemini_client or reset_client at a time
PoolSeqNext ==
    \/ \E t \in Threads, a \in Credentials : Alone(t) /\ GetClientEnter(t, a)
    \/ \E t \in Threads : Alone(t) /\ Lookup(t)
    \/ \E t \in Threads : Alone(t) /\ Fetch(t)
    \/ \E t \in Threads : Alone(t) /\ Create(t)
    \/ \E t \in Threads : Alone(t) /\ Store(t)
    \/ \E t \in Threads, a \in Credentials : Alone(t) /\ ResetEnter(t, a)
    \/ \E t \in Threads : Alone(t) /\ ResetClient(t)

PoolSeqSpec == PoolInit /\ [][PoolSeqNext]_vars

(***************************************************************************)
(* The error classification on its own: the tests the code applies to an   *)
(* exception raised by generate_content.                                   *)
(***************************************************************************)
ErrorKinds == {"RateLimited", "Unauthenticated", "Transient", "Fatal"}

\* what str(error) may say
ErrorMessages ==
    {<<>>, <<"API", "key", "not", "valid">>, <<"INVALID", "ARGUMENT">>,
     <<"Request", "unauthorized">>, <<"RESOURCE_EXHAUSTED">>, <<"quota", "exceeded">>}

\* the exceptions generate_content may raise
RaisedErrors ==
    {ClientError(c, m, 1) : c \in {400, 401, 403, 404, 429}, m \in ErrorMessages}
    \cup {Exc(t, 0, m, 0, 1) :
            t \in {"ServerError", "ResourceExhausted", "ServiceUnavailable",
                   "DeadlineExceeded", "ConnectionError", "TimeoutError", "ValueError"},
            m \in ErrorMessages}

\* the kinds whose test the exception e passes: is_rate_limit_error first and
\* is_auth_error only after it (the except clause of extract_facts), the
\* retry predicate of the decorator on the exception as raised, and fatal
\* when no test passes
error_kinds(e) ==
    {k \in ErrorKinds :
        \/ k = "RateLimited" /\ is_rate_limit_error(e)
        \/ k = "Unauthenticated" /\ ~is_rate_limit_error(e) /\ is_auth_error(e)
        \/ k = "Transient" /\ retry_if_exception_type(e)
        \/ k = "Fatal" /\ ~is_rate_limit_error(e) /\ ~is_auth_error(e)
                       /\ ~retry_if_exception_type(e)}

\* the tests are applied to the exception arg
Classify ==
    /\ arg # None
    /\ out = Pending
    /\ out' = Return(error_kinds(arg[1]))
    /\ UNCHANGED <<arg, files>>
    /\ UNCHANGED <<pipelineVars, poolVars, inc>>

ClassifyInit ==
    /\ SessionInit
    /\ env = None
    /\ PoolIdle
    /\ arg \in {Some(e) : e \in RaisedErrors}
    /\ out = Pending
    /\ files = NoFiles
    /\ inc = IncIdle

ClassifyNext == Classify

ClassifySpec == ClassifyInit /\ [][ClassifyNext]_vars

(***************************************************************************)
(* The texts built from the confirmed facts: the facts section of the      *)
(* Ghostwriter's prompt and the source text handed to the Critic.  A text  *)
(* is kept as the sequence of its entries, each a name and a printed value.*)
(***************************************************************************)
model_dump_keep_none(f) == model_dump(f)

\* facts.model_dump(exclude_none=True)
model_dump_exclude_none(f) ==
    LET dump == model_dump(f)
    IN  [k \in {k \in AllFactsFields : dump[k] # JNull} |-> dump[k]]

\* str(dict): the items in insertion order
DictStr(dict) ==
    LET keys == SelectSeq(FactsFieldOrder, LAMBDA k : k \in DOMAIN dict)
    IN  [i \in 1..Len(keys) |-> <<keys[i], dict[keys[i]]>>]

\* the prompt of generate_narrative: the facts and the style context sections
ghostwriter_prompt(f, raw_context) ==
    [facts |-> DictStr(model_dump_exclude_none(f)), context |-> raw_context]

\* bool(value)
Truthy(v) ==
    CASE v.t = "null" -> FALSE
      [] v.t = "str" -> v.s # ""
      [] v.t = "int" -> v.n # 0
      [] v.t = "list" -> v.l # <<>>
      [] OTHER -> TRUE

\* value or 'N/A'
OrNA(v) == IF Truthy(v) THEN v ELSE JStr("N/A")

\* the source_text of the Critic pass: the notes, then one line per listed field
critic_source_text(raw_text, verified_facts) ==
    [notes |-> raw_text,
     facts |-> << <<"Event", OrNA(FieldValue(verified_facts, "event_title"))>>,
                  <<"Organizer", OrNA(FieldValue(verified_facts, "organizer"))>>,
                  <<"Attendance", OrNA(FieldValue(verified_facts, "attendance_count"))>>,
                  <<"Mode", OrNA(FieldValue(verified_facts, "mode"))>> >>]

\* the facts and notes a text is built from
PromptFacts ==
    {[EventFacts(t, a, DefaultOrganizer, m) EXCEPT !.judges = j, !.media_link = l] :
        t \in {None, Some(""), Some("ML")},
        a \in {None, Some(0), Some(45)},
        m \in {None, Some("Online")},
        j \in {<<>>, <<"Dr. Y">>},
        l \in {None, Some("http://photos")}}

PromptInputs == {[facts |-> f, raw_text |-> t] : f \in PromptFacts, t \in RawTexts}

\* generate_narrative builds its prompt
GhostwriterPrompt ==
    /\ arg # None
    /\ out = Pending
    /\ out' = Return([of |-> "generate_narrative",
                      text |-> ghostwriter_prompt(arg[1].facts, arg[1].raw_text)])
    /\ UNCHANGED <<arg, files>>
    /\ UNCHANGED <<pipelineVars, poolVars, inc>>

\* the verify stage builds the source text for check_consistency
CriticSource ==
    /\ arg # None
    /\ out = Pending
    /\ out' = Return([of |-> "check_consistency",
                      text |-> critic_source_text(arg[1].raw_text, arg[1].facts)])
    /\ UNCHANGED <<arg, files>>
    /\ UNCHANGED <<pipelineVars, poolVars, inc>>

PromptInit ==
    /\ SessionInit
    /\ env = None
    /\ PoolIdle
    /\ arg \in {Some(i) : i \in PromptInputs}
    /\ out = Pending
    /\ files = NoFiles
    /\ inc = IncIdle

PromptNext ==
    \/ GhostwriterPrompt
    \/ CriticSource

PromptSpec == PromptInit /\ [][PromptNext]_vars

(***************************************************************************)
(* core.renderer: the sanitizers.  A string is kept as the sequence of its *)
(* pieces: the characters "{", "}", "%", and stretches of other text.      *)
(***************************************************************************)
MaxLen == 3

Chars == {"{", "}", "%", "a"}

\* the strings of at most MaxLen pieces
Strings == UNION {[1..n -> Chars] : n \in 0..MaxLen}

\* re.sub for a pattern of two characters: the matches are found from left
\* to right and do not overlap; the text after a match is scanned on
RECURSIVE re_sub(_, _, _)
re_sub(pattern, repl, string) ==
    IF Len(string) < 2
    THEN string
    ELSE IF SubSeq(string, 1, 2) = pattern
         THEN repl \o re_sub(pattern, repl, SubSeq(string, 3, Len(string)))
         ELSE <<Head(string)>> \o re_sub(pattern, repl, Tail(string))

\* sanitize_jinja_input(value) for a str
sanitize_jinja_input(value) ==
    LET v1 == re_sub(<<"{", "{">>, <<"{", " ", "{">>, value)
        v2 == re_sub(<<"}", "}">>, <<"}", " ", "}">>, v1)
        v3 == re_sub(<<"{", "%">>, <<"{", " ", "%">>, v2)
    IN  re_sub(<<"%", "}">>, <<"%", " ", "}">>, v3)

\* the values of a dumped report: None, a str, an int, a list of str
PyVal(t, str, n, l) == [t |-> t, s |-> str, n |-> n, l |-> l]

PyNone == PyVal("none", <<>>, 0, <<>>)

PyStr(str) == PyVal("str", str, 0, <<>>)

PyInt(n) == PyVal("int", <<>>, n, <<>>)

PyList(l) == PyVal("list", <<>>, 0, l)

\* the strings a report is made of
ReportStrings == {<<"a">>, <<"{", "{", "a", "}", "}">>, <<"{", "%", "a", "%", "}">>}

\* report.model_dump(), reduced to one field of each kind
ReportDumps ==
    {[facts |-> [event_title |-> t, attendance_count |-> a, judges |-> PyList(j)],
      narrative |-> [executive_summary |-> e, key_takeaways |-> k]] :
        t \in {PyNone} \cup {PyStr(x) : x \in ReportStrings},
        a \in {PyNone, PyInt(45)},
        j \in {<<>>} \cup {<<x>> : x \in ReportStrings},
        e \in ReportStrings,
        k \in {<<>>} \cup {<<x>> : x \in ReportStrings}}

\* sanitize_view_model, applied to the dump data of the report
sanitize_view_model(data) ==
    LET facts_out == [key \in DOMAIN data.facts |->
                         LET value == data.facts[key]
                         IN  IF value.t = "none" THEN PyStr(<<"N/A">>)
                             ELSE IF value.t = "str" THEN PyStr(sanitize_jinja_input(value.s))
                             ELSE value]
        takeaways == data.narrative.key_takeaways
        takeaways_out == IF takeaways = <<>>
                         THEN <<<<"No specific takeaways recorded.">>>>
                         ELSE [i \in 1..Len(takeaways) |-> sanitize_jinja_input(takeaways[i])]
        summary_out == sanitize_jinja_input(data.narrative.executive_summary)
    IN  [facts |-> facts_out,
         narrative |-> [executive_summary |-> summary_out, key_takeaways |-> takeaways_out],
         executive_summary |-> summary_out,
         key_takeaways |-> takeaways_out]

\* the call has no report among its arguments
NoReport == <<>>

\* sanitize_jinja_input is called on a string
SanitizeInput ==
    /\ arg # None
    /\ arg[1].of = "sanitize_jinja_input"
    /\ out = Pending
    /\ out' = Return(sanitize_jinja_input(arg[1].string))
    /\ UNCHANGED <<arg, files>>
    /\ UNCHANGED <<pipelineVars, poolVars, inc>>

\* sanitize_view_model is called on a report
SanitizeViewModel ==
    /\ arg # None
    /\ arg[1].of = "sanitize_view_model"
    /\ out = Pending
    /\ out' = Return(sanitize_view_model(arg[1].report[1]))
    /\ UNCHANGED <<arg, files>>
    /\ UNCHANGED <<pipelineVars, poolVars, inc>>

RenderInit ==
    /\ SessionInit
    /\ env = None
    /\ PoolIdle
    /\ arg \in {Some([of |-> "sanitize_jinja_input", string |-> s, report |-> NoReport]) :
                    s \in Strings}
              \cup {Some([of |-> "sanitize_view_model", string |-> <<>>, report |-> <<r>>]) :
                       r \in ReportDumps}
    /\ out = Pending
    /\ files = NoFiles
    /\ inc = IncIdle

RenderNext ==
    \/ SanitizeInput
    \/ SanitizeViewModel

RenderSpec == RenderInit /\ [][RenderNext]_vars

(***************************************************************************)
(* core.templates: the template store.  A template id is kept as the       *)
(* sequence of the parts a path sees in it, so "a" is <<"a">> and "./a"    *)
(* is <<".", "a">>.                                                        *)
(***************************************************************************)
MaxUseCount == 2

TemplateIds == {<<"a">>, <<".", "a">>, <<"b">>}

\* datetime.now().isoformat()
Times == {"t1", "t2"}

\* EventTemplate(id=..., name=..., created_at=..., use_count=...); name stands
\* for the descriptive fields, created_at is "" while unset
EventTemplate(id, name, created_at, use_count) ==
    [id |-> id, name |-> name, created_at |-> created_at, use_count |-> use_count]

\* the templates a caller hands to save_template
Templates ==
    {EventTemplate(id, name, created_at, 0) :
        id \in TemplateIds, name \in {"Test Template", "Annual Hackathon"},
        created_at \in {"", "t0"}}

\* _get_template_path(template_id): TEMPLATES_DIR / f"{template_id}.json";
\* joining pathlib paths drops the "." parts
_get_template_path(template_id) == SelectSeq(template_id, LAMBDA part : part # ".")

\* template.model_dump_json(indent=2)
model_dump_json(template) ==
    [kind |-> "object", keys |-> {"id", "name", "created_at", "use_count"},
     fields |-> template]

\* a file that is not JSON, as "{ invalid json }"
CorruptJson == [kind |-> "corrupt", keys |-> {}, fields |-> EventTemplate(<<>>, "", "", 0)]

\* a file that is JSON without the required id, as {"name": "Missing ID"}
MissingIdJson ==
    [kind |-> "object", keys |-> {"name"}, fields |-> EventTemplate(<<>>, "Missing ID", "", 0)]

\* EventTemplate(**json.loads(text)); None stands for the exception raised
\* by a text that is not a JSON object of the schema
EventTemplateFromJson(text) ==
    IF text.kind = "object" /\ "id" \in text.keys
    THEN Some(EventTemplate(text.fields.id, text.fields.name,
                            text.fields.created_at, text.fields.use_count))
    ELSE None

\* the template object after save_template has set its timestamp
stamped(template, now) ==
    IF template.created_at = "" THEN [template EXCEPT !.created_at = now] ELSE template

\* the directory after save_template(template)
save_template(fs, template, now) ==
    [fs EXCEPT ![_get_template_path(template.id)] =
        Some(model_dump_json(stamped(template, now)))]

\* get_template(template_id) (Optional)
get_template(fs, template_id) ==
    LET path == _get_template_path(template_id)
    IN  IF fs[path] = None THEN None ELSE EventTemplateFromJson(fs[path][1])

\* a call of the store: the function, its id argument, its template argument
\* as the call leaves it (Optional)
Call(of, template_id, template) ==
    [of |-> of, template_id |-> template_id, template |-> template]

\* save_template(template)
SaveTemplate ==
    \E template \in Templates, now \in Times :
        /\ files' = save_template(files, template, now)
        /\ arg' = Some(Call("save_template", template.id, Some(stamped(template, now))))
        /\ out' = Return(TRUE)
        /\ UNCHANGED <<pipelineVars, poolVars, inc>>

\* get_template(template_id)
GetTemplate ==
    \E template_id \in TemplateIds :
        /\ arg' = Some(Call("get_template", template_id, None))
        /\ out' = Return(get_template(files, template_id))
        /\ UNCHANGED files
        /\ UNCHANGED <<pipelineVars, poolVars, inc>>

\* increment_use_count(template_id)
IncrementUseCount ==
    \E template_id \in TemplateIds, now \in Times :
        LET template == get_template(files, template_id)
        IN  /\ template # None => template[1].use_count < MaxUseCount
            /\ arg' = Some(Call("increment_use_count", template_id, None))
            /\ IF template # None
               THEN /\ files' = save_template(files,
                                    [template[1] EXCEPT !.use_count = @ + 1], now)
                    /\ out' = Return(TRUE)
               ELSE /\ out' = Return(FALSE)
                    /\ UNCHANGED files
            /\ UNCHANGED <<pipelineVars, poolVars, inc>>

\* delete_template(template_id)
DeleteTemplate ==
    \E template_id \in TemplateIds :
        LET path == _get_template_path(template_id)
        IN  /\ arg' = Some(Call("delete_template", template_id, None))
            /\ IF files[path] # None
               THEN /\ files' = [files EXCEPT ![path] = None]
                    /\ out' = Return(TRUE)
               ELSE /\ out' = Return(FALSE)
                    /\ UNCHANGED files
            /\ UNCHANGED <<pipelineVars, poolVars, inc>>

\* the orders TEMPLATES_DIR.glob("*.json") can list the files of fs in
GlobOrders(fs) ==
    LET present == {path \in Paths : fs[path] # None}
    IN  {order \in [1..Cardinality(present) -> present] :
            \A i, j \in DOMAIN order : i # j => order[i] # order[j]}

\* template put into a list that is ordered by use_count, highest first,
\* behind the templates of the same use_count
RECURSIVE Insert(_, _)
Insert(template, list) ==
    IF list = <<>> THEN <<template>>
    ELSE IF Head(list).use_count >= template.use_count
         THEN <<Head(list)>> \o Insert(template, Tail(list))
         ELSE <<template>> \o list

\* sorted(templates, key=lambda t: t.use_count, reverse=True): a stable sort
RECURSIVE sorted(_)
sorted(templates) ==
    IF templates = <<>> THEN <<>>
    ELSE Insert(templates[Len(templates)], sorted(SubSeq(templates, 1, Len(templates) - 1)))

\* the templates appended by the loop of load_templates; a file that does
\* not load is skipped
RECURSIVE Loaded(_, _)
Loaded(fs, order) ==
    IF order = <<>> THEN <<>>
    ELSE LET template == EventTemplateFromJson(fs[Head(order)][1])
         IN  (IF template = None THEN <<>> ELSE template) \o Loaded(fs, Tail(order))

\* the mutant of load_templates: the list is returned as it was read
load_templates_unsorted(fs, order) == Loaded(fs, order)

\* load_templates(), the directory being listed in order
load_templates(fs, order) == sorted(Loaded(fs, order))

\* load_templates()
LoadTemplates ==
    \E order \in GlobOrders(files) :
        /\ arg' = Some(Call("load_templates", <<>>, None))
        /\ out' = Return(load_templates(files, order))
        /\ UNCHANGED files
        /\ UNCHANGED <<pipelineVars, poolVars, inc>>

\* the directory is empty, or holds one file that was not written by
\* save_template
TemplateInit ==
    /\ SessionInit
    /\ env = None
    /\ PoolIdle
    /\ arg = None
    /\ out = Pending
    /\ files \in {[NoFiles EXCEPT ![<<"corrupt">>] = text] :
                     text \in {None, Some(CorruptJson), Some(MissingIdJson)}}
    /\ inc = IncIdle

TemplateNext ==
    \/ SaveTemplate
    \/ GetTemplate
    \/ IncrementUseCount
    \/ DeleteTemplate
    \/ LoadTemplates

TemplateSpec == TemplateInit /\ [][TemplateNext]_vars

(***************************************************************************)
(* increment_use_count called by several sessions.  Streamlit runs each    *)
(* session's script in a thread of its own; the function takes no lock, so *)
(* the threads interleave between its read and its write of the file.      *)
(***************************************************************************)
\* the template every session has selected
SharedId == <<"a">>

\* template = get_template(template_id), and `return False` if it is None
IncRead(t) ==
    /\ inc[t].pc = "idle"
    /\ inc[t].returned + inc[t].refused < MaxUseCount
    /\ LET template == get_template(files, SharedId)
       IN  inc' = [inc EXCEPT ![t] =
                      IF template = None
                      THEN NotIncrementing(@.returned, @.refused + 1)
                      ELSE [@ EXCEPT !.pc = "read", !.template = template]]
    /\ UNCHANGED <<arg, out, files>>
    /\ UNCHANGED <<pipelineVars, poolVars>>

\* template.use_count += 1; save_template(template); return True
IncWrite(t) ==
    /\ inc[t].pc = "read"
    /\ \E now \in Times :
           files' = save_template(files,
                        [inc[t].template[1] EXCEPT !.use_count = @ + 1], now)
    /\ inc' = [inc EXCEPT ![t] = NotIncrementing(@.returned + 1, @.refused)]
    /\ UNCHANGED <<arg, out>>
    /\ UNCHANGED <<pipelineVars, poolVars>>

\* the template is stored, by save_template, with a use_count of 0
RaceInit ==
    /\ SessionInit
    /\ env = None
    /\ PoolIdle
    /\ arg = None
    /\ out = Pending
    /\ \E template \in Templates, now \in Times :
           /\ template.id = SharedId
           /\ files = save_template(NoFiles, template, now)
    /\ inc = IncIdle

RaceNext ==
    \/ \E t \in Threads : IncRead(t)
    \/ \E t \in Threads : IncWrite(t)

RaceSpec == RaceInit /\ [][RaceNext]_vars

(***************************************************************************)
(* create_retry_decorator for any max_attempts: the wait tenacity takes    *)
(* after a failed attempt that is retried.                                 *)
(***************************************************************************)
MaxAttemptNumber == 12

\* tenacity sleeps after attempt n of a decorator made with
\* create_retry_decorator(max_attempts=configured)
BackoffWait ==
    /\ arg # None
    /\ arg[1].of = "wait_exponential"
    /\ out = Pending
    /\ arg[1].attempt_number < arg[1].max_attempts
    /\ out' = Return(wait_exponential(arg[1].attempt_number))
    /\ UNCHANGED <<arg, files>>
    /\ UNCHANGED <<pipelineVars, poolVars, inc>>

BackoffInit ==
    /\ SessionInit
    /\ env = None
    /\ PoolIdle
    /\ arg \in {Some([of |-> "wait_exponential", attempt_number |-> n, max_attempts |-> configured]) :
                   n \in 1..MaxAttemptNumber, configured \in 1..MaxAttemptNumber}
    /\ out = Pending
    /\ files = NoFiles
    /\ inc = IncIdle

BackoffNext == BackoffWait

BackoffSpec == BackoffInit /\ [][BackoffNext]_vars

(***************************************************************************)
(* Properties                                                              *)
(***************************************************************************)
InStage == fn \in {"extract_facts", "generate_narrative", "check_consistency"}

Done == result.kind # "pending"

Last(h) == h[Len(h)]

\* the failures the retry policy calls transient
TransientKinds ==
    {"ServiceUnavailable", "DeadlineExceeded", "ConnectionError", "TimeoutError"}

IsTransient(r) == r.isExc /\ r.exc.type \in TransientKinds

\* a 429 or a resource-exhausted signal
IsRateLimitSignal(r) ==
    /\ r.isExc
    /\ \/ r.exc.type = "ClientError" /\ r.exc.status_code = 429
       \/ r.exc.type = "ResourceExhausted"

\* a response without a pre-parsed object
Unparsed(r) == ~r.isExc /\ r.parsed = None

\* ... whose text is valid per-schema JSON
ValidText(r) == Unparsed(r) /\ ValidatesAs(SchemaOf(fn), r.text)

\* ... whose text is not JSON or does not validate
InvalidText(r) ==
    Unparsed(r) /\ r.text.kind \in {"malformed", "json"} /\ ~ValidatesAs(SchemaOf(fn), r.text)

\* C1: a stage whose remote call fails with a 429 or a resource-exhausted
\* signal makes exactly one remote call and raises RateLimitError with
\* retry_after = 60.
C1_NoRetryOnRateLimit ==
    (InStage /\ Len(history) >= 1 /\ IsRateLimitSignal(history[1]))
        => /\ calls = 1
           /\ result.kind = "raised"
           /\ result.exc.type = "RateLimitError"
           /\ result.exc.retry_after = 60

\* C2: in each stage a 401/403 failure of the remote call is not retried and
\* reaches the caller as an AuthenticationError.
C2_AuthErrorTyped ==
    (InStage /\ Len(history) >= 1 /\ history[1].isExc
        /\ history[1].exc.type = "ClientError"
        /\ history[1].exc.status_code \in {401, 403})
        => /\ calls = 1
           /\ result.kind = "raised"
           /\ result.exc.type = "AuthenticationError"

\* C3: when every remote call of an invocation fails with a transient error
\* the invocation makes exactly 3 attempts and then raises the error of the
\* last call itself; there is never a 4th call.
C3_BoundedRetryOnTransient ==
    /\ calls <= 3
    /\ (InStage /\ \A i \in 1..Len(history) : IsTransient(history[i]))
        => /\ calls = Len(history)
           /\ Done => /\ calls = 3
                      /\ result.kind = "raised"
                      /\ result.exc = history[3].exc
           /\ ~Done => calls < 3

C3_Witness ==
    /\ InStage
    /\ calls = 3
    /\ \A i \in 1..3 : IsTransient(history[i])
    /\ result.kind = "raised"

\* C4: the waits between successive retries are strictly increasing.
C4_WaitsStrictlyIncreasing ==
    \A i \in 1..(Len(waits) - 1) : waits[i] < waits[i + 1]

\* C5: Extraction and Narration raise their terminal failure for a response
\* that fails schema validation only after max_retries + 1 = 3 generation
\* calls have failed.
C5_SelfCorrectionLoop ==
    (fn \in {"extract_facts", "generate_narrative"}
        /\ Len(history) >= 1 /\ InvalidText(Last(history))
        /\ result.kind = "raised")
        => calls = 3

\* C6: in every stage, a response without a pre-parsed object whose text is
\* valid per-schema JSON makes the stage return the object that text
\* describes.
C6_ParsesValidText ==
    (InStage /\ Len(history) >= 1 /\ ValidText(Last(history)))
        => /\ result.kind = "returned"
           /\ LET o == Last(history).text.obj
                  v == result.value[1]
              IN  CASE fn = "extract_facts" ->
                         /\ v.event_title = (IF o["event_title"].t = "str"
                                             THEN <<o["event_title"].s>> ELSE <<>>)
                         /\ v.attendance_count = (IF o["attendance_count"].t = "int"
                                                  THEN <<o["attendance_count"].n>> ELSE <<>>)
                         /\ v.mode = <<>>
                         /\ v.organizer = "IEEE RIT Student Branch"
                    [] fn = "generate_narrative" ->
                         /\ v.executive_summary = o["executive_summary"].s
                         /\ v.key_takeaways = o["key_takeaways"].l
                    [] fn = "check_consistency" ->
                         /\ v.is_safe = (o["is_safe"].n = 1)
                         /\ v.confidence = o["confidence"].n
                         /\ v.issues = o["issues"].l
                         /\ v.reasoning = o["reasoning"].s

C6_Witness ==
    /\ fn = "extract_facts"
    /\ Len(history) >= 1
    /\ ValidText(Last(history))
    /\ Last(history).text.obj["attendance_count"].t = "int"
    /\ result.kind = "returned"

\* C7: when every response Verification receives is malformed (no parsed
\* object, text that fails validation) it raises nothing and returns a
\* Verdict with is_safe true, confidence <= 0.5, no issues and a non-empty
\* reasoning.
C7_DegradedVerdict ==
    (fn = "check_consistency" /\ Len(history) >= 1
        /\ \A i \in 1..Len(history) : InvalidText(history[i]))
        => /\ result.kind = "returned"
           /\ result.value[1].is_safe = TRUE
           /\ result.value[1].confidence <= 5
           /\ result.value[1].issues = <<>>
           /\ result.value[1].reasoning # ""

C7_Witness ==
    /\ fn = "check_consistency"
    /\ Len(history) >= 1
    /\ InvalidText(Last(history))
    /\ Last(history).text.kind = "malformed"
    /\ result.kind = "returned"

\* C8: the fallback Verdict of Verification is safe and has a confidence
\* strictly below 0.5.
C8_FallbackBelowHalf ==
    (fn = "check_consistency" /\ Len(history) >= 1 /\ InvalidText(Last(history))
        /\ result.kind = "returned")
        => /\ result.value[1].is_safe = TRUE
           /\ result.value[1].confidence < 5

\* C9: Verification raises nothing but RateLimitError and AuthenticationError;
\* for every other outcome of the remote call it returns a Verdict.
C9_VerificationOnlyTypedErrors ==
    (fn = "check_consistency" /\ result.kind = "raised")
        => result.exc.type \in {"RateLimitError", "AuthenticationError"}

\* the kind of failure the caller of the stages saw
FailedKind ==
    CASE failed.handler = "RateLimitError" -> "RateLimited"
      [] failed.handler = "AuthenticationError" -> "Unauthenticated"
      [] failed.handler = "ValueError"
            /\ failed.at \in {"extract_facts", "handle_text_process"} -> "ExtractionFailed"
      [] failed.handler = "ValueError" -> "NarrationFailed"
      [] OTHER -> failed.exc.type

\* C10: a pipeline run that fails ends in Failed(kind) with kind one of
\* RateLimited, Unauthenticated, ExtractionFailed, NarrationFailed; no other
\* error escapes a stage.
C10_FailedKinds ==
    run = "Failed"
        => FailedKind \in {"RateLimited", "Unauthenticated", "ExtractionFailed",
                           "NarrationFailed"}

(***************************************************************************)
(* The client pool.                                                        *)
(***************************************************************************)
\* thread t completes a call of get_gemini_client by returning a client
Acquired(t) ==
    /\ thr[t].pc \in {"fetch", "store"}
    /\ thr'[t].pc = "idle"
    /\ thr'[t].ret.kind = "returned"

\* thread t executes the body of reset_client
Released(t) == thr[t].pc = "reset" /\ thr'[t].pc = "idle"

\* C12: when the calls of get_gemini_client and reset_client follow one
\* another, all the clients returned for one credential since its last
\* eviction are one and the same instance, and no client is ever returned
\* for two different credentials.
C12_SameHandlePerCredential ==
    /\ \A k \in PoolKeys : Cardinality(got[k]) <= 1
    /\ \A k1, k2 \in PoolKeys : k1 # k2 => gotEver[k1] \cap gotEver[k2] = {}

C12_Witness ==
    /\ ~released
    /\ thr["s1"].ret.kind = "returned"
    /\ thr["s1"].ret = thr["s2"].ret
    /\ thr["s1"].key = thr["s2"].key
    /\ got[thr["s1"].key] = {thr["s1"].client}
    /\ \E k \in PoolKeys : k # thr["s1"].key /\ got[k] # {}

\* C13: when threads call get_gemini_client concurrently and reset_client is
\* never called, at most one client is constructed for a credential and every
\* caller receives that one client.
C13_OneHandleUnderConcurrency ==
    ~released =>
        \A k \in PoolKeys : Cardinality(made[k]) <= 1 /\ Cardinality(gotEver[k]) <= 1

\* C14 as stated: reset_client(a) evicts the client cached for a and leaves
\* the client cached for every other credential unchanged, whatever a is,
\* the empty and the absent credential included.
C14_ReleaseEvictsOnlyThatCredential ==
    [][\A t \in Threads :
          Released(t) =>
              /\ handles'[thr[t].api_key] = None
              /\ \A k \in PoolKeys \ {thr[t].api_key} : handles'[k] = handles[k]]_vars

\* C14 amended: reset_client(a) with a non-empty credential evicts the client
\* cached for a and no other; with an empty or absent credential it evicts
\* every cached client.  The first client returned for a credential after its
\* eviction is one that was never returned for it before.
C14_ReleaseEvicts ==
    [][\A t \in Threads :
          /\ Released(t) =>
                IF TruthyStr(thr[t].api_key)
                THEN /\ handles'[thr[t].api_key] = None
                     /\ \A k \in PoolKeys \ {thr[t].api_key} : handles'[k] = handles[k]
                ELSE \A k \in PoolKeys : handles'[k] = None
          /\ (Acquired(t) /\ got[thr[t].key] = {}) =>
                thr'[t].client \notin gotEver[thr[t].key]]_vars

C14_Witness ==
    \E k \in PoolKeys :
        /\ Cardinality(gotEver[k]) = 2
        /\ Cardinality(got[k]) = 1
        /\ handles[k] # None
        /\ \E k2 \in PoolKeys \ {k} : handles[k2] # None /\ got[k2] = gotEver[k2]

\* C15: get_gemini_client called with an empty or absent credential while
\* GEMINI_API_KEY is not set raises ValueError, constructs no client and
\* leaves the pool as it was; the pool never has an entry whose key is the
\* empty or the absent credential.
C15_MissingCredential ==
    /\ [](\A k \in PoolKeys : ~TruthyStr(k) => handles[k] = None)
    /\ [][\A t \in Threads :
            (/\ thr[t].pc = "idle"
             /\ thr'[t] # thr[t]
             /\ thr'[t].pc # "reset"
             /\ ~TruthyStr(thr'[t].api_key)
             /\ ~TruthyStr(env)) =>
                /\ thr'[t].pc = "idle"
                /\ thr'[t].ret = Raise(ValueError(NO_API_KEY))
                /\ handles' = handles
                /\ created' = created
                /\ made' = made]_vars

C15_Witness ==
    /\ ~TruthyStr(env)
    /\ \E t \in Threads :
          /\ thr[t].pc = "idle"
          /\ ~TruthyStr(thr[t].api_key)
          /\ thr[t].ret = Raise(ValueError(NO_API_KEY))
    /\ \E k \in PoolKeys : handles[k] # None

(***************************************************************************)
(* The process environment.                                                *)
(***************************************************************************)
\* C16: no step of a session or of the pipeline writes the process
\* environment: GEMINI_API_KEY is the same after every action as before it.
C16_EnvironmentUnchanged == [][env' = env]_vars

C16_Witness ==
    /\ api_key # None
    /\ api_key[1] \in client_cache
    /\ calls > 0
    /\ env # api_key

(***************************************************************************)
(* The order of the stages.                                                *)
(***************************************************************************)
\* the steps of a pipeline run, each to the state that may follow it
StageOrder ==
    {<<"Idle", "Extracting">>,
     <<"Extracting", "Extracted">>, <<"Extracting", "Failed">>,
     <<"Extracted", "Narrating">>,
     <<"Narrating", "Narrated">>, <<"Narrating", "Failed">>,
     <<"Narrated", "Verifying">>,
     <<"Verifying", "Verified">>, <<"Verifying", "Failed">>,
     <<"Verified", "Idle">>,
     <<"Failed", "Extracting">>, <<"Failed", "Narrating">>}

\* C11: the stages run strictly in sequence and none is skipped:
\* generate_narrative runs only while facts returned by the extraction are
\* stored, check_consistency only while a returned narrative is held, the run
\* is Verified only with a returned verdict stored, and the run moves only
\* along the order Extracting, Extracted, Narrating, Narrated, Verifying,
\* Verified.
C11_StagesInSequence ==
    /\ [](fn = "generate_narrative" => facts # None /\ stage = "verify")
    /\ [](fn = "check_consistency" => facts # None /\ narrative # None)
    /\ [](run = "Verified" => critic_verdict # None /\ final_report # None)
    /\ [][run' # run => <<run, run'>> \in StageOrder]_vars

C11_Witness ==
    /\ run = "Verified"
    /\ stage = "report"
    /\ final_report # None
    /\ critic_verdict # None

(***************************************************************************)
(* Verdicts and the report.                                                *)
(***************************************************************************)
\* check_consistency has returned a verdict to the session script
VerdictReturned == fn = "check_consistency" /\ result.kind = "returned"

\* C17: every verdict check_consistency returns, whether taken from
\* response.parsed, validated from response.text or the fallback, has a
\* confidence between 0.0 and 1.0 (0 and 10 tenths).
C17_ConfidenceInRange ==
    VerdictReturned =>
        result.value[1].confidence >= 0 /\ result.value[1].confidence <= 10

C17_Witness ==
    /\ VerdictReturned
    /\ Last(history).parsed = None
    /\ ValidText(Last(history))
    /\ result.value[1].confidence = 9

\* C18: every verdict check_consistency returns with is_safe true has no
\* issues.
C18_SafeMeansNoIssues ==
    VerdictReturned => (result.value[1].is_safe => result.value[1].issues = <<>>)

\* C19: whenever a final report is stored, a verdict is stored with it, the
\* report's confidence_score is that verdict's confidence, and it lies
\* between 0.0 and 1.0.
C19_ReportConfidence ==
    final_report # None =>
        /\ critic_verdict # None
        /\ final_report[1].confidence_score = critic_verdict[1].confidence
        /\ final_report[1].confidence_score >= 0
        /\ final_report[1].confidence_score <= 10

C19_Witness ==
    /\ final_report # None
    /\ stage = "report"
    /\ final_report[1].confidence_score = 8
    /\ critic_verdict[1].confidence = 8

(***************************************************************************)
(* The life of the facts.                                                  *)
(***************************************************************************)
\* the reviewer has submitted the form once in this run
Reviewed ==
    \/ run \in {"Narrating", "Narrated", "Verifying", "Verified"}
    \/ run = "Failed" /\ failed.at \in {"generate_narrative", "check_consistency"}

\* C20: within one pipeline run the reviewer changes the extracted facts at
\* most once: once the form has been submitted the stored facts stay as they
\* are until the run is over, a failed generate_narrative or
\* check_consistency included.
C20_FactsFrozenAfterReview ==
    [][(Reviewed /\ run' # "Idle") => facts' = facts]_vars

(***************************************************************************)
(* The life of the narrative.                                              *)
(***************************************************************************)
\* C21: a narrative is not changed once generate_narrative has returned it:
\* the session holds exactly the returned object, check_consistency runs on
\* it without generate_narrative being called again, whatever its outcome,
\* the report stores exactly that narrative, and a stored report keeps its
\* narrative for as long as it is stored.
C21_NarrativeImmutable ==
    [][/\ (fn = "generate_narrative" /\ run' = "Narrated") => narrative' = result.value
       /\ run \in {"Narrated", "Verifying"} =>
             /\ fn' # "generate_narrative"
             /\ run' \in {"Narrated", "Verifying"} => narrative' = narrative
             /\ run' = "Verified" => final_report'[1].narrative = narrative[1]
       /\ (final_report # None /\ final_report' # None) =>
             final_report'[1].narrative = final_report[1].narrative]_vars

C21_Witness ==
    /\ run = "Verified"
    /\ final_report # None
    /\ final_report[1].narrative \in ParsedNarratives
    /\ final_report[1].narrative.key_takeaways # <<>>
    /\ ~critic_verdict[1].is_safe

(***************************************************************************)
(* The error classification.                                               *)
(***************************************************************************)
\* C22: the classification gives every raised error exactly one of the kinds
\* RateLimited, Unauthenticated, Transient, Fatal; it returns and does not
\* raise; and applying it changes nothing but its own result.
C22_ClassificationTotal ==
    /\ [](out.kind # "raised")
    /\ [](out.kind = "returned" =>
             /\ out.value[1] \subseteq ErrorKinds
             /\ Cardinality(out.value[1]) = 1)
    /\ [][out' # out => /\ out'.kind = "returned"
                        /\ UNCHANGED <<arg, pipelineVars, poolVars>>]_vars

C22_Witness ==
    /\ out.kind = "returned"
    /\ arg[1].type = "ClientError"
    /\ arg[1].status_code = 429
    /\ HasWord(LowerMsg(arg[1].msg), "unauthorized")
    /\ out.value[1] = {"RateLimited"}

(***************************************************************************)
(* Determinism.                                                            *)
(***************************************************************************)
\* what function f returns or raises under the retry policy when the remote
\* service answers with the sequence h, from attempt n on
RECURSIVE Replay(_, _, _)
Replay(f, h, n) ==
    IF h = <<>>
    THEN Pending
    ELSE LET b == Body(f, Head(h))
         IN  IF Retries(b, n) THEN Replay(f, Tail(h), n + 1) ELSE b

IsSet(f, k) == FieldValue(f, k) # JNull

\* the text that function of has built
Built(of) == out.kind = "returned" /\ out.value[1].of = of

\* C24: the facts section of the Ghostwriter's prompt has one entry for each
\* field of the facts that is set, with that field's value, and nothing for
\* a field that is None: neither its name nor a None.
C24_PromptOmitsUnset ==
    Built("generate_narrative") =>
        LET f == arg[1].facts
            section == out.value[1].text.facts
        IN  /\ {section[i][1] : i \in 1..Len(section)} = {k \in AllFactsFields : IsSet(f, k)}
            /\ \A i \in 1..Len(section) :
                  /\ section[i][2] # JNull
                  /\ section[i][2] = FieldValue(f, section[i][1])
            /\ \A i, j \in 1..Len(section) : section[i][1] = section[j][1] => i = j

C24_Witness ==
    /\ Built("generate_narrative")
    /\ arg[1].facts.event_title = None
    /\ arg[1].facts.media_link = None
    /\ arg[1].facts.attendance_count = Some(45)
    /\ Len(out.value[1].text.facts) = 4

\* the line of the source text that shows field k of the facts
SourceLabels ==
    [event_title |-> "Event", attendance_count |-> "Attendance", organizer |-> "Organizer",
     mode |-> "Mode", judges |-> "Judges", media_link |-> "Media"]

\* C25: the source text handed to check_consistency holds the raw notes and
\* every confirmed fact: each field of the confirmed facts that is set has a
\* line in it that shows its value.
C25_SourceHoldsEveryFact ==
    Built("check_consistency") =>
        LET f == arg[1].facts
            lines == out.value[1].text.facts
        IN  /\ out.value[1].text.notes = arg[1].raw_text
            /\ \A k \in AllFactsFields :
                  IsSet(f, k) =>
                      \E i \in 1..Len(lines) :
                          lines[i] = <<SourceLabels[k], FieldValue(f, k)>>

(***************************************************************************)
(* The extraction cache.                                                   *)
(***************************************************************************)
\* "Process Notes" starts an extraction of the text raw_text_context'
Requested == fn = "none" /\ run' = "Extracting"

\* C26: once extract_facts has returned for a text and a key, later requests
\* for the same text and key do not call extract_facts again: they are served
\* the cached facts, equal to the first result, with no remote call.  The
\* cache is written only when extract_facts returns, never when it raises,
\* and an entry never changes.
C26_ExtractionCached ==
    [][/\ (Requested /\ extract_cache[raw_text_context', api_key[1]] # None) =>
             /\ fn' = "handle_text_process"
             /\ calls' = 0
             /\ result'.kind = "returned"
             /\ model_dump(result'.value[1]) = extract_cache[raw_text_context', api_key[1]][1]
       /\ (Requested /\ extract_cache[raw_text_context', api_key[1]] = None) =>
             fn' = "extract_facts"
       /\ fn = "handle_text_process" => calls' = 0
       /\ \A t \in RawTexts, k \in ApiKeys :
             /\ extract_cache[t, k] # None => extract_cache'[t, k] = extract_cache[t, k]
             /\ extract_cache'[t, k] # extract_cache[t, k] =>
                   /\ fn = "extract_facts"
                   /\ result.kind = "returned"
                   /\ t = raw_text_context
                   /\ k = api_key[1]
                   /\ EventFactsFromDict(extract_cache'[t, k][1]) = result.value[1]
       /\ (fn = "extract_facts" /\ result.kind = "raised") =>
             extract_cache' = extract_cache]_vars

C26_Witness ==
    /\ fn = "handle_text_process"
    /\ result.kind = "returned"
    /\ calls = 0
    /\ history = <<>>
    /\ extract_cache[raw_text_context, api_key[1]] = Some(model_dump(result.value[1]))
    /\ result.value[1].event_title = Some("ML")

(***************************************************************************)
(* The sanitizers.                                                         *)
(***************************************************************************)
\* the two characters c1 c2 occur next to each other in string
Contains(string, c1, c2) ==
    \E i \in 1..(Len(string) - 1) : string[i] = c1 /\ string[i + 1] = c2

\* the call of function of has returned
Returned(of) == out.kind = "returned" /\ arg[1].of = of

\* C27: whatever the input string, the output of sanitize_jinja_input has
\* none of the Jinja delimiters {{, }}, {%, %} in it.
C27_NoDelimiterLeft ==
    Returned("sanitize_jinja_input") =>
        /\ ~Contains(out.value[1], "{", "{")
        /\ ~Contains(out.value[1], "}", "}")
        /\ ~Contains(out.value[1], "{", "%")
        /\ ~Contains(out.value[1], "%", "}")

\* string has neither {{ nor {% in it
Clean(string) == ~Contains(string, "{", "{") /\ ~Contains(string, "{", "%")

StoredAs(fs, template_id) ==
    {template \in {EventTemplateFromJson(fs[path][1])[1] :
                      path \in {p \in Paths : fs[p] # None
                                                /\ EventTemplateFromJson(fs[p][1]) # None}} :
        template.id = template_id}

\* the step is a call of function of
Calls(of) == arg' # None /\ arg'[1].of = of

\* C29: the store behaves as a map from ids to templates.  After
\* save_template(t), get_template(t.id) is t; after delete_template(id),
\* get_template(id) is None, and the call returned True exactly when a
\* template of that id was stored; and neither call changes what
\* get_template returns for any other id.
C29_StoreIsMapById ==
    [][/\ Calls("save_template") =>
            /\ get_template(files', arg'[1].template_id) = arg'[1].template
            /\ \A id \in TemplateIds \ {arg'[1].template_id} :
                   get_template(files', id) = get_template(files, id)
       /\ Calls("delete_template") =>
            /\ get_template(files', arg'[1].template_id) = None
            /\ out'.value[1] = (StoredAs(files, arg'[1].template_id) # {})
            /\ \A id \in TemplateIds \ {arg'[1].template_id} :
                   get_template(files', id) = get_template(files, id)
      ]_vars

\* C30: increment_use_count(id) on a stored template returns True and
\* stores the same template with use_count one higher; on an id no stored
\* template has, it returns False and leaves every file as it was.  No other
\* template changes in either case.
C30_IncrementExactlyOne ==
    [][Calls("increment_use_count") =>
          LET id == arg'[1].template_id
          IN  /\ \A other \in TemplateIds \ {id} :
                     StoredAs(files', other) = StoredAs(files, other)
              /\ IF StoredAs(files, id) # {}
                 THEN /\ out'.value[1] = TRUE
                      /\ StoredAs(files', id) =
                             {[template EXCEPT !.use_count = @ + 1] :
                                 template \in StoredAs(files, id)}
                 ELSE /\ out'.value[1] = FALSE
                      /\ files' = files
      ]_vars

\* the templates stored in fs that load
ValidStored(fs) ==
    {EventTemplateFromJson(fs[path][1])[1] :
        path \in {p \in Paths : fs[p] # None /\ EventTemplateFromJson(fs[p][1]) # None}}

\* C31: load_templates does not raise, whatever the files hold; it returns
\* each valid stored template once and nothing else, and the use_count never
\* rises along the returned list.
C31_LoadSkipsAndSorts ==
    (arg # None /\ arg[1].of = "load_templates") =>
        /\ out.kind = "returned"
        /\ LET list == out.value[1]
           IN  /\ {list[i] : i \in DOMAIN list} = ValidStored(files)
               /\ Len(list) = Cardinality(ValidStored(files))
               /\ \A i, j \in DOMAIN list : i < j => list[i].use_count >= list[j].use_count

\* load_templates has returned two templates of different use_count while
\* a file that does not load is in the directory
C31_Witness ==
    /\ arg # None /\ arg[1].of = "load_templates"
    /\ out.kind = "returned"
    /\ Len(out.value[1]) = 2
    /\ out.value[1][1].use_count > out.value[1][2].use_count
    /\ files[<<"corrupt">>] # None

(***************************************************************************)
(* The backoff.                                                            *)
(***************************************************************************)
\* C32: every wait between two attempts is at least 2 and at most 10,
\* whatever the attempt number and the configured number of attempts.
C32_WaitWithinFloorAndCeiling ==
    Returned("wait_exponential") => (2 <= out.value[1] /\ out.value[1] <= 10)

\* a wait was taken after the fifth attempt or later, where the exponential
\* is above the ceiling
C32_Witness ==
    /\ Returned("wait_exponential")
    /\ arg[1].attempt_number >= 5
    /\ out.value[1] = 10

(***************************************************************************)
(* Empty responses, termination, and the session around the stages.        *)
(***************************************************************************)
\* a response with neither a parsed object nor text
EmptyResponse(r) == Unparsed(r) /\ r.text.kind \in {"none", "empty"}

\* C33: a stage whose remote call answers with neither a parsed object nor
\* text ends at that attempt: Extraction and Narration raise their failure
\* (the ValueError "LLM returned empty response", which the session reports
\* as the stage's failure) and return nothing, Verification returns the
\* degraded default Verdict.
C33_EmptyResponse ==
    /\ (InStage /\ Len(history) >= 1 /\ EmptyResponse(Last(history)))
          => IF fn \in {"extract_facts", "generate_narrative"}
             THEN /\ result.kind = "raised"
                  /\ result.exc.type = "ValueError"
                  /\ result.exc.msg = EMPTY_RESPONSE
                  /\ result.value = None
             ELSE /\ result.kind = "returned"
                  /\ result.value[1] = FallbackVerdict
    /\ (run = "Failed" /\ failed.exc.type = "ValueError" /\ failed.exc.msg = EMPTY_RESPONSE)
          => /\ failed.handler = "ValueError"
             /\ FailedKind \in {"ExtractionFailed", "NarrationFailed"}

\* Narration has failed on an empty response that followed a transient error
C33_Witness ==
    /\ fn = "generate_narrative"
    /\ Len(history) = 2
    /\ EmptyResponse(Last(history))
    /\ result.kind = "raised"

\* C34: an invocation of a stage makes at most 3 remote calls, every call
\* but the last one failed with a transient error, and the invocation is
\* over once a call had any other outcome (rate limit, authentication,
\* fatal error, empty response, invalid or valid response) or once 3 calls
\* were made.
C34_CallsOnlyAfterTransient ==
    InStage =>
        /\ calls <= 3
        /\ calls = Len(history)
        /\ \A k \in 1..(Len(history) - 1) : IsTransient(history[k])
        /\ (Len(history) >= 1 /\ ~IsTransient(Last(history))) => Done
        /\ calls = 3 => Done

\* Extraction made 3 calls: two transient failures, then an empty response
C34_Witness ==
    /\ fn = "extract_facts"
    /\ calls = 3
    /\ EmptyResponse(Last(history))
    /\ Done

\* the step consumes the failure of an invocation of one of the functions fs
FailedStep(fs) == fn \in fs /\ result.kind = "raised" /\ fn' = "none"

\* C35: the stage advances only on success.  A failed Extraction leaves the
\* stage at input and the stored facts as they were; a failed Narration or
\* Verification leaves the stage at verify and the stored report and verdict
\* as they were; the stage goes from input to verify only when Extraction
\* returned and from verify to report only when Verification returned; and a
\* report is stored only together with a verdict and the report stage.
C35_StageAdvancesOnlyOnSuccess ==
    [][/\ FailedStep({"extract_facts", "handle_text_process"}) =>
              (stage = "input" /\ stage' = "input" /\ facts' = facts)
       /\ FailedStep({"generate_narrative", "check_consistency"}) =>
              /\ stage = "verify" /\ stage' = "verify"
              /\ final_report' = final_report
              /\ critic_verdict' = critic_verdict
       /\ (stage = "input" /\ stage' # "input") =>
              /\ stage' = "verify"
              /\ fn \in {"extract_facts", "handle_text_process"}
              /\ result.kind = "returned"
       /\ (stage = "verify" /\ stage' # "verify") =>
              /\ stage' = "report"
              /\ fn = "check_consistency"
              /\ result.kind = "returned"
       /\ (final_report' # final_report /\ final_report' # None) =>
              (stage' = "report" /\ critic_verdict' # None)
      ]_vars

\* Verification has failed after Narration succeeded, and the session is
\* still at verify with no report stored
C35_Witness ==
    /\ run = "Failed"
    /\ failed.at = "check_consistency"
    /\ stage = "verify"
    /\ final_report = None
    /\ critic_verdict = None

\* C36: at the verify stage facts are stored; at the report stage a report
\* and a verdict are stored and the report's facts are the stored facts;
\* and the stored facts do not change from the submission that starts
\* Narration until Verification is over, so they are the facts both stages
\* were run on.  Start Over and the change of the API key are steps of the
\* specification like any other.
C36_SessionStateConsistent ==
    /\ [](stage = "verify" => facts # None)
    /\ [](stage = "report" =>
              /\ final_report # None
              /\ critic_verdict # None
              /\ facts # None
              /\ final_report[1].facts = facts[1])
    /\ [][(run \in {"Narrating", "Narrated", "Verifying"}) => (facts' = facts)]_vars

\* the API key was changed on the report page: the report is still stored
C36_Witness ==
    /\ stage = "report"
    /\ api_key = None
    /\ final_report # None

\* C37: the processing flag is set only while an Extraction request is in
\* flight; once the request has an outcome, whatever it is, the flag is
\* false, so no later click on Process Notes finds it set.
C37_ProcessingOnlyInFlight ==
    /\ processing => (fn \in {"extract_facts", "handle_text_process"} /\ run = "Extracting")
    /\ fn = "none" => ~processing

\* Extraction ended with an error the handler has no except clause for,
\* and the flag is false
C37_Witness ==
    /\ run = "Failed"
    /\ failed.at = "extract_facts"
    /\ failed.handler = "uncaught"
    /\ ~processing

(***************************************************************************)
(* The session's credential.                                               *)
(***************************************************************************)
\* C38: every remote call of the session is made with the key the session
\* stores at that moment, and through that key's cached client: no stage
\* function runs while the key is unset, every call of the invocation under
\* way used the stored key, and a change of key evicts the old key's client,
\* so that only a call made with that key again can bring one back.
C38_CallsUseCurrentKey ==
    /\ [](InStage => api_key # None)
    /\ [](\A i \in DOMAIN keys_used : api_key = Some(keys_used[i]))
    /\ [][(calls' = calls + 1) =>
              /\ api_key # None
              /\ api_key' = api_key
              /\ keys_used'[Len(keys_used')] = api_key[1]
              /\ client_cache' = client_cache \cup {api_key[1]}]_vars
    /\ [][(api_key # None /\ api_key' # api_key) => (api_key[1] \notin client_cache')]_vars

\* a remote call is under way with the second key after Extraction had
\* succeeded with the first one, whose client is no longer cached
C38_Witness ==
    /\ api_key = Some("k2")
    /\ keys_used = <<"k2">>
    /\ "k1" \notin client_cache
    /\ \E t \in RawTexts : extract_cache[t, "k1"] # None

(***************************************************************************)
(* Concurrent increments.                                                  *)
(***************************************************************************)
\* the number of calls of increment_use_count that returned True
RECURSIVE ReturnedTrue(_)
ReturnedTrue(threads) ==
    IF threads = {} THEN 0
    ELSE LET t == CHOOSE u \in threads : TRUE
         IN  inc[t].returned + ReturnedTrue(threads \ {t})

\* C39: whenever no call of increment_use_count is under way, the stored
\* use_count of the template, which was 0 at the start, is the number of
\* calls that returned True.
C39_NoLostIncrement ==
    (\A t \in Threads : inc[t].pc = "idle") =>
        get_template(files, SharedId)[1].use_count = ReturnedTrue(Threads)

=============================================================================
